---- MODULE Spec2Model ----
(***************************************************************************)
(* A model of the synthetic transaction-data generator of InsightX         *)
(* (src/src/utils/data_generator.py): MockDataGenerator, its record        *)
(* producer, the dataset assembler and the validator / summarizer.         *)
(*                                                                         *)
(* Units.  Money is an integer: amount_inr and every bound are in paise    *)
(* (1/100 rupee); the un-rounded log-normal draw is in mills (1/1000       *)
(* rupee) so that round(amount, 2) has something to round.  Time is whole  *)
(* seconds since 1970-01-01 00:00 (a Thursday), naive local time.  A       *)
(* uniform draw random.random() is an integer number of hundredths,        *)
(* 0..99, and a probability or weight is a number of hundredths.  Python's *)
(* None in a nullable string column is the string "None"; an optional      *)
(* value that is not a string is a sequence of length 0 or 1.  An          *)
(* exception that leaves a call is the name of its class.                  *)
(***************************************************************************)
EXTENDS Integers, Sequences, FiniteSets, TLC

VARIABLES
    gen,        \* the MockDataGenerator instances alive: gen[1] is `generator`, gen[2] a
                \* second instance; each [seed |-> self.seed, asked |-> has it drawn records]
    rng,        \* the process-global random / np.random state: seeded?, seed, position
    tape,       \* per seed, the draws its stream has yielded so far (a seed fixes them)
    clock,      \* the last reading of datetime.now()
    cfg,        \* the class attributes read at run time: [DEVICE_WEIGHTS |-> weights]
    fs,         \* the output path: [writable |-> can it be written, file |-> <<>> or <<table>>]
    txn,        \* <<>> or <<r>>: the record a direct generate_single_transaction returned
    drawn,      \* <<>> or <<d>>: the draws the record in txn was built from
    df,         \* per caller variable, <<>> or <<table>>: the table generate_data returned to it
    run,        \* per caller variable, <<>> or <<call>>: the last generate_data call made for it
    errors,     \* <<>> or <<list>>: what validate_data(df[1]) returned
    summary,    \* <<>> or <<dict>>: what get_data_summary(df[1]) returned
    exc,        \* <<>> or <<name>>: the exception the last call raised
    out,        \* the lines generate_and_save_dataset has printed
    ret,        \* <<>> or <<table>>: what generate_and_save_dataset returned to its caller
    made,       \* <<>> or <<m>>: how the record in txn was made: [now |-> the reading of
                \* datetime.now() it used, order |-> its values in the order computed]
    session_state   \* st.session_state of the browser session of app.py: a function
                \* from the keys that are set to their values

vars == <<gen, rng, tape, clock, cfg, fs, txn, drawn, df, run, errors, summary, exc, out, ret,
          made, session_state>>

-----------------------------------------------------------------------------
(* Configuration constants of MockDataGenerator.                           *)

NoneVal == "None"

TRANSACTION_TYPES == <<"P2P", "P2M", "Bill Payment", "Recharge">>
TRANSACTION_TYPE_WEIGHTS == <<35, 35, 20, 10>>

MERCHANT_CATEGORIES == <<"Food", "Grocery", "Fuel", "Entertainment", "Utilities">>

\* variant: no entry for Recharge, which then falls back to MERCHANT_CATEGORIES
MERCHANT_CATEGORY_BY_TYPE_no_recharge(transaction_type) ==
    CASE transaction_type = "P2M" -> <<"Food", "Grocery", "Fuel", "Entertainment">>
      [] transaction_type = "Bill Payment" -> <<"Utilities">>
      [] OTHER -> MERCHANT_CATEGORIES

\* MERCHANT_CATEGORY_BY_TYPE.get(transaction_type, MERCHANT_CATEGORIES)
MERCHANT_CATEGORY_BY_TYPE(transaction_type) ==
    CASE transaction_type = "P2M" -> <<"Food", "Grocery", "Fuel", "Entertainment">>
      [] transaction_type = "Bill Payment" -> <<"Utilities">>
      [] transaction_type = "Recharge" -> <<"Utilities">>
      [] OTHER -> MERCHANT_CATEGORIES

AGE_GROUPS == <<"18-25", "26-35", "36-45", "46-55", "56+">>
AGE_GROUP_WEIGHTS == <<25, 35, 20, 12, 8>>

INDIAN_STATES ==
    <<"Maharashtra", "Karnataka", "Tamil Nadu", "Delhi", "Gujarat",
      "Rajasthan", "Uttar Pradesh", "West Bengal", "Telangana", "Kerala">>
STATE_WEIGHTS == <<18, 15, 12, 12, 10, 8, 8, 7, 6, 4>>

BANKS == <<"SBI", "HDFC", "ICICI", "Axis", "Yes Bank">>
BANK_WEIGHTS == <<30, 25, 20, 15, 10>>

DEVICE_TYPES == <<"Android", "iOS", "Web">>
DEVICE_WEIGHTS == <<60, 30, 10>>

NETWORK_TYPES == <<"4G", "5G", "WiFi">>
NETWORK_WEIGHTS == <<50, 30, 20>>

\* AMOUNT_RANGES.get(device_type, (10.0, 25000.0)), in paise
AMOUNT_RANGES(device_type) ==
    CASE device_type = "Android" -> <<1000, 2500000>>
      [] device_type = "iOS" -> <<5000, 4500000>>
      [] device_type = "Web" -> <<10000, 7500000>>
      [] OTHER -> <<1000, 2500000>>

BASE_FAILURE_RATE == 5
WEEKEND_BILLPAY_FAILURE_RATE == 20
BASE_FRAUD_RATE == 2
HIGH_VALUE_FRAUD_RATE == 10
HIGH_VALUE_THRESHOLD == 5000000

\* days_back of generate_single_transaction's call of _generate_timestamp
DAYS_BACK == 30

-----------------------------------------------------------------------------
(* Library behaviour the generator relies on.                              *)

Min(a, b) == IF a <= b THEN a ELSE b
Max(a, b) == IF a >= b THEN a ELSE b

RECURSIVE CumWeight(_, _)
\* itertools.accumulate(weights)[j], 1-based
CumWeight(weights, j) == IF j = 0 THEN 0 ELSE CumWeight(weights, j - 1) + weights[j]

\* The weights are binary floats, and itertools.accumulate adds them as floats:
\* CumError(weights)[j] is the sign of the j-th running sum against the float of
\* the same number of hundredths, -1 where the additions have rounded it below
\* (0.35 + 0.35 + 0.20 is 0.8999999999999999, 0.6 + 0.3 likewise), 0 where the
\* two are the same float.  The running sums of the other tables are exact.
CumError(weights) ==
    CASE weights = TRANSACTION_TYPE_WEIGHTS -> <<0, 0, -1, -1>>
      [] weights = STATE_WEIGHTS -> <<0, -1, -1, 0, -1, -1, -1, -1, 0, 0>>
      [] weights = DEVICE_WEIGHTS -> <<0, -1, -1>>
      [] OTHER -> [j \in 1..Len(weights) |-> 0]

\* random.choices(options, weights=weights, k=1)[0] for the uniform draw u:
\* bisect(cum_weights, random() * total, 0, n - 1) over the cumulative weights.
\* A total that has rounded below 1.0 takes random() * total below the float
\* of u hundredths, so a draw that sits on a cumulative weight which is exact
\* stays under it.
weighted_choice(options, weights, u) ==
    LET n == Len(options)
        total == CumWeight(weights, n)
        error == CumError(weights)
        scaled == IF u > 0 THEN error[n] ELSE 0
        idx == Cardinality({j \in 1..(n - 1) :
                   \/ CumWeight(weights, j) * 100 < u * total
                   \/ CumWeight(weights, j) * 100 = u * total /\ error[j] <= scaled})
    IN options[idx + 1]

\* random.choices raises ValueError when the number of weights differs from the
\* number of options or the weights do not sum to more than zero
choices_raises(options, weights) ==
    \/ Len(weights) # Len(options)
    \/ CumWeight(weights, Len(weights)) <= 0

\* random.choice(seq) is seq[_randbelow(len(seq))]; k is the stream's draw and
\* the result is uniform over 0..len-1.
RandBelow(n, k) == k % n

\* timedelta(days=d).total_seconds()
DaySeconds(d) == d * 86400

\* variant: the hour counted from 1, as a 1..24 clock
HourOneBased(ts) == ((ts \div 3600) % 24) + 1

\* datetime.hour
Hour(ts) == (ts \div 3600) % 24

\* datetime.weekday(): Monday is 0; day 0 of the epoch is a Thursday
Weekday(ts) == ((ts \div 86400) + 3) % 7

DAY_NAMES ==
    <<"Monday", "Tuesday", "Wednesday", "Thursday", "Friday", "Saturday", "Sunday">>

\* datetime.strftime('%A')
StrftimeA(ts) == DAY_NAMES[Weekday(ts) + 1]

\* np.clip(x, lo, hi): minimum(maximum(x, lo), hi)
Clip(x, lo, hi) == Min(Max(x, lo), hi)

\* round(x, 2) of a float64 given in mills, to paise: round half to even
Round2(mills) ==
    LET q == mills \div 10
        r == mills % 10
    IN IF r < 5 THEN q
       ELSE IF r > 5 THEN q + 1
       ELSE IF q % 2 = 0 THEN q ELSE q + 1

\* np.random.lognormal(log(m), 1.0) = m * e^z for the standard normal draw z;
\* ez is e^z in thousandths, m and the result are in mills.
LogNormal(m, ez) == (m \div 1000) * ez + ((m % 1000) * ez) \div 1000

-----------------------------------------------------------------------------
(* The field producers of MockDataGenerator.                               *)

\* _generate_transaction_id: u stands for uuid.uuid4().hex[:12].upper()
generate_transaction_id(u) == <<"TXN", u>>

\* variant: the offset counted from end_date, a window that starts now
generate_timestamp_from_end(days_back, now, secs) ==
    LET end_date == now
    IN end_date + secs

\* _generate_timestamp(days_back): now is datetime.now(), secs the randint draw
generate_timestamp(days_back, now, secs) ==
    LET end_date == now
        start_date == end_date - DaySeconds(days_back)
    IN start_date + secs

\* variant: the ceiling of the device kept for Bill Payment
AmountBoundsBillPaymentUncapped(device_type, transaction_type) ==
    LET dev == AMOUNT_RANGES(device_type)
    IN CASE transaction_type = "Recharge" -> <<1000, Min(dev[2], 200000)>>
         [] transaction_type = "Bill Payment" -> <<10000, dev[2]>>
         [] transaction_type = "P2P" -> dev
         [] transaction_type = "P2M" -> <<2000, Min(dev[2], 3000000)>>
         [] OTHER -> dev

\* the (min_amt, max_amt) pair _generate_amount clips to, in paise
AmountBounds(device_type, transaction_type) ==
    LET dev == AMOUNT_RANGES(device_type)
    IN CASE transaction_type = "Recharge" -> <<1000, Min(dev[2], 200000)>>
         [] transaction_type = "Bill Payment" -> <<10000, Min(dev[2], 5000000)>>
         [] transaction_type = "P2P" -> dev
         [] transaction_type = "P2M" -> <<2000, Min(dev[2], 3000000)>>
         [] OTHER -> dev

\* _generate_amount, in paise
generate_amount(device_type, transaction_type, ez) ==
    LET b == AmountBounds(device_type, transaction_type)
        min_amt == b[1]
        max_amt == b[2]
        mean == ((min_amt + max_amt) * 10) \div 4
        amount == LogNormal(mean, ez)
        clipped == Clip(amount, min_amt * 10, max_amt * 10)
    IN Round2(clipped)

\* variant: the weekend rate used on weekends for every type
determine_failure_status_any_weekend(transaction_type, is_weekend, u) ==
    LET failure_rate == IF is_weekend
                        THEN WEEKEND_BILLPAY_FAILURE_RATE
                        ELSE BASE_FAILURE_RATE
    IN IF u < failure_rate THEN "FAILED" ELSE "SUCCESS"

\* _determine_failure_status
determine_failure_status(transaction_type, is_weekend, u) ==
    LET failure_rate == IF transaction_type = "Bill Payment" /\ is_weekend
                        THEN WEEKEND_BILLPAY_FAILURE_RATE
                        ELSE BASE_FAILURE_RATE
    IN IF u < failure_rate THEN "FAILED" ELSE "SUCCESS"

\* variant: the high-value rate used from the threshold on (>=)
determine_fraud_flag_at_threshold(amount, u) ==
    LET fraud_rate == IF amount >= HIGH_VALUE_THRESHOLD
                      THEN HIGH_VALUE_FRAUD_RATE
                      ELSE BASE_FRAUD_RATE
    IN IF u < fraud_rate THEN 1 ELSE 0

\* _determine_fraud_flag
determine_fraud_flag(amount, u) ==
    LET fraud_rate == IF amount > HIGH_VALUE_THRESHOLD
                      THEN HIGH_VALUE_FRAUD_RATE
                      ELSE BASE_FRAUD_RATE
    IN IF u < fraud_rate THEN 1 ELSE 0

\* variants: the P2P branch left out; the None branch also taken for Bill Payment
get_merchant_category_no_p2p_branch(transaction_type, k) ==
    LET categories == MERCHANT_CATEGORY_BY_TYPE(transaction_type)
    IN categories[RandBelow(Len(categories), k) + 1]

get_merchant_category_billpay_none(transaction_type, k) ==
    IF transaction_type = "P2P" \/ transaction_type = "Bill Payment"
    THEN NoneVal
    ELSE LET categories == MERCHANT_CATEGORY_BY_TYPE(transaction_type)
         IN categories[RandBelow(Len(categories), k) + 1]

\* _get_merchant_category
get_merchant_category(transaction_type, k) ==
    IF transaction_type = "P2P"
    THEN NoneVal
    ELSE LET categories == MERCHANT_CATEGORY_BY_TYPE(transaction_type)
         IN categories[RandBelow(Len(categories), k) + 1]

\* variant: an age group drawn for every type
get_receiver_age_group_every_type(transaction_type, u) ==
    weighted_choice(AGE_GROUPS, AGE_GROUP_WEIGHTS, u)

\* _get_receiver_age_group
get_receiver_age_group(transaction_type, u) ==
    IF transaction_type = "P2P"
    THEN weighted_choice(AGE_GROUPS, AGE_GROUP_WEIGHTS, u)
    ELSE NoneVal

\* variant: the weekend test off by one (weekday() > 5)
calculate_derived_fields_sunday_only(timestamp) ==
    [hour_of_day |-> Hour(timestamp),
     day_of_week |-> StrftimeA(timestamp),
     is_weekend |-> IF Weekday(timestamp) > 5 THEN 1 ELSE 0]

\* _calculate_derived_fields
calculate_derived_fields(timestamp) ==
    [hour_of_day |-> Hour(timestamp),
     day_of_week |-> StrftimeA(timestamp),
     is_weekend |-> IF Weekday(timestamp) >= 5 THEN 1 ELSE 0]

\* variant: the derived fields calculated last, where the dict literal merges
\* them in
statements_derived_last ==
    <<[name |-> "timestamp", reads |-> {}],
      [name |-> "transaction_type", reads |-> {}],
      [name |-> "device_type", reads |-> {}],
      [name |-> "amount", reads |-> {"device_type", "transaction_type"}],
      [name |-> "transaction_id", reads |-> {}],
      [name |-> "merchant_category", reads |-> {"transaction_type"}],
      [name |-> "transaction_status", reads |-> {"transaction_type", "is_weekend"}],
      [name |-> "sender_age_group", reads |-> {}],
      [name |-> "receiver_age_group", reads |-> {"transaction_type"}],
      [name |-> "sender_state", reads |-> {}],
      [name |-> "sender_bank", reads |-> {}],
      [name |-> "receiver_bank", reads |-> {}],
      [name |-> "network_type", reads |-> {}],
      [name |-> "fraud_flag", reads |-> {"amount"}],
      [name |-> "derived", reads |-> {"timestamp"}],
      [name |-> "is_weekend", reads |-> {"derived"}]>>

\* the statements of generate_single_transaction in the order in which they
\* run: the assignments of lines 278-290, then the entries of the dict literal
\* that call a method (lines 293-319, evaluated top to bottom).  Each is the
\* name its value gets and the local variables its expression reads.
statements ==
    <<[name |-> "timestamp", reads |-> {}],
      [name |-> "transaction_type", reads |-> {}],
      [name |-> "device_type", reads |-> {}],
      [name |-> "derived", reads |-> {"timestamp"}],
      [name |-> "is_weekend", reads |-> {"derived"}],
      [name |-> "amount", reads |-> {"device_type", "transaction_type"}],
      [name |-> "transaction_id", reads |-> {}],
      [name |-> "merchant_category", reads |-> {"transaction_type"}],
      [name |-> "transaction_status", reads |-> {"transaction_type", "is_weekend"}],
      [name |-> "sender_age_group", reads |-> {}],
      [name |-> "receiver_age_group", reads |-> {"transaction_type"}],
      [name |-> "sender_state", reads |-> {}],
      [name |-> "sender_bank", reads |-> {}],
      [name |-> "receiver_bank", reads |-> {}],
      [name |-> "network_type", reads |-> {}],
      [name |-> "fraud_flag", reads |-> {"amount"}]>>

RECURSIVE Execute(_, _, _, _)
\* generate_single_transaction after its first k statements, for the draws d of
\* the two seeded streams, the uuid u and the clock reading now: the values
\* bound so far, the order in which they were bound, and the exception that
\* ended the run if one did.  A statement takes what it reads from the values
\* bound before it; reading a local that has no value yet raises
\* UnboundLocalError, and random.choices raises ValueError for a malformed
\* weight table.  Step is statement k, applied to what the statements before it
\* left.
Execute(k, d, u, now) ==
    LET Step(before) ==
            LET name == statements[k].name
                b == before.bound
                value ==
                    CASE name = "timestamp" -> generate_timestamp(DAYS_BACK, now, d.secs)
                      [] name = "transaction_type" ->
                             weighted_choice(TRANSACTION_TYPES, TRANSACTION_TYPE_WEIGHTS, d.type)
                      [] name = "device_type" ->
                             weighted_choice(DEVICE_TYPES, cfg.DEVICE_WEIGHTS, d.device)
                      [] name = "derived" -> calculate_derived_fields(b.timestamp)
                      [] name = "is_weekend" -> b.derived.is_weekend = 1
                      [] name = "amount" ->
                             generate_amount(b.device_type, b.transaction_type, d.ez)
                      [] name = "transaction_id" -> generate_transaction_id(u)
                      [] name = "merchant_category" ->
                             get_merchant_category(b.transaction_type, d.mcat)
                      [] name = "transaction_status" ->
                             determine_failure_status(b.transaction_type, b.is_weekend, d.fail)
                      [] name = "sender_age_group" ->
                             weighted_choice(AGE_GROUPS, AGE_GROUP_WEIGHTS, d.sage)
                      [] name = "receiver_age_group" ->
                             get_receiver_age_group(b.transaction_type, d.rage)
                      [] name = "sender_state" ->
                             weighted_choice(INDIAN_STATES, STATE_WEIGHTS, d.state)
                      [] name = "sender_bank" -> weighted_choice(BANKS, BANK_WEIGHTS, d.sbank)
                      [] name = "receiver_bank" -> weighted_choice(BANKS, BANK_WEIGHTS, d.rbank)
                      [] name = "network_type" ->
                             weighted_choice(NETWORK_TYPES, NETWORK_WEIGHTS, d.net)
                      [] name = "fraud_flag" -> determine_fraud_flag(b.amount, d.fraud)
            IN IF before.raised # <<>> THEN before
               ELSE IF ~(statements[k].reads \subseteq DOMAIN b)
               THEN [before EXCEPT !.raised = <<"UnboundLocalError">>]
               ELSE IF name = "device_type" /\ choices_raises(DEVICE_TYPES, cfg.DEVICE_WEIGHTS)
               THEN [before EXCEPT !.raised = <<"ValueError">>]
               ELSE [bound |-> (name :> value) @@ b,
                     order |-> Append(before.order, name),
                     raised |-> <<>>]
    IN IF k = 0 THEN [bound |-> <<>>, order |-> <<>>, raised |-> <<>>]
       ELSE CHOOSE after \in {Step(before) : before \in {Execute(k - 1, d, u, now)}} : TRUE

\* the dict generate_single_transaction builds, from the values its statements
\* have bound, for a run that no exception ended
transaction(d, u, now) ==
    LET Dict(b) ==
       [transaction_id |-> b.transaction_id,
        timestamp |-> b.timestamp,
        transaction_type |-> b.transaction_type,
        merchant_category |-> b.merchant_category,
        amount_inr |-> b.amount,
        transaction_status |-> b.transaction_status,
        sender_age_group |-> b.sender_age_group,
        receiver_age_group |-> b.receiver_age_group,
        sender_state |-> b.sender_state,
        sender_bank |-> b.sender_bank,
        receiver_bank |-> b.receiver_bank,
        device_type |-> b.device_type,
        network_type |-> b.network_type,
        fraud_flag |-> b.fraud_flag,
        hour_of_day |-> b.derived.hour_of_day,
        day_of_week |-> b.derived.day_of_week,
        is_weekend |-> b.derived.is_weekend]
    IN CHOOSE dict \in {Dict(done.bound) : done \in {Execute(Len(statements), d, u, now)}} : TRUE

\* variant: a key whose value is None is left out of the dict
generate_single_transaction_nulls_omitted(d, u, now) ==
    LET r == transaction(d, u, now)
        nullable == {"merchant_category", "receiver_age_group"}
    IN [k \in DOMAIN r \ {f \in nullable : r[f] = NoneVal} |-> r[k]]

\* generate_single_transaction: returns the dict it built
generate_single_transaction(d, u, now) == transaction(d, u, now)

-----------------------------------------------------------------------------
(* The dataset assembler and the validator / summarizer.                   *)

RECURSIVE InsertByTimestamp(_, _)
\* r placed after every row of the sorted sequence whose timestamp is <= its own
InsertByTimestamp(sorted, r) ==
    IF sorted = <<>> THEN <<r>>
    ELSE IF sorted[Len(sorted)].timestamp <= r.timestamp
         THEN Append(sorted, r)
         ELSE Append(InsertByTimestamp(SubSeq(sorted, 1, Len(sorted) - 1), r),
                     sorted[Len(sorted)])

RECURSIVE SortPrefix(_, _)
SortPrefix(rows, k) ==
    IF k = 0 THEN <<>> ELSE InsertByTimestamp(SortPrefix(rows, k - 1), rows[k])

\* variant: the sort left out
sort_values_skipped(rows) == rows

\* df.sort_values('timestamp').reset_index(drop=True): ascending; on the short
\* columns of the model numpy's sort is an insertion sort, which keeps ties in
\* their order of generation.
sort_values(rows) == SortPrefix(rows, Len(rows))

\* The body of generate_data once the records are drawn: DataFrame, sort, and
\* the astype normalisations, which leave the model's values as they are.
assemble(transactions) == sort_values(transactions)

\* Series.isna() / notna() on a nullable string column
IsNa(v) == v = NoneVal

\* Series.isin(values)
IsIn(v, values) == \E i \in 1..Len(values) : values[i] = v

\* the Series (df['transaction_status'] == 'FAILED') as 0 / 1
FailedColumn(table) ==
    [i \in 1..Len(table) |-> IF table[i].transaction_status = "FAILED" THEN 1 ELSE 0]

\* the Series df['fraud_flag']
FraudColumn(table) == [i \in 1..Len(table) |-> table[i].fraud_flag]

\* the Series df['amount_inr']
AmountColumn(table) == [i \in 1..Len(table) |-> table[i].amount_inr]

RECURSIVE SumSeq(_, _)
SumSeq(values, k) == IF k = 0 THEN 0 ELSE SumSeq(values, k - 1) + values[k]

\* Series.mean(): NaN on an empty series, else sum / count kept as a fraction
Mean(values) ==
    IF Len(values) = 0
    THEN [kind |-> "nan"]
    ELSE [kind |-> "value", num |-> SumSeq(values, Len(values)), den |-> Len(values)]

\* groupby(...)['amount_inr'].mean() is a float: the side of the exact mean of
\* amounts (in paise) on which it lies, 1 above, -1 below, 0 when the two are
\* equal.  Each amount is the float nearest to its hundredths; the group is
\* summed in row order with the compensated summation of pandas' group_mean
\* (y = val - comp, t = sum + y, comp = t - sum - y, sum = t) and the sum is
\* divided by the count, every operation rounding to 53 significant bits,
\* halves to even.  A float is kept here as its sign and its magnitude in
\* units of 2^-72 rupee, written in digits of 12 bits, lowest first.
FloatMeanSide(amounts) ==
    LET Width == 12
        Base == 4096
        Scale == 6
        First(a) == IF a = <<>> THEN 0 ELSE a[1]
        Rest(a) == IF a = <<>> THEN <<>> ELSE Tail(a)
        Shl(a, j) == IF a = <<>> THEN <<>> ELSE [i \in 1..j |-> 0] \o a
        RECURSIVE Norm(_)
        Norm(a) == IF a = <<>> THEN <<>>
                   ELSE IF a[Len(a)] = 0 THEN Norm(SubSeq(a, 1, Len(a) - 1)) ELSE a
        RECURSIVE Digits(_)
        Digits(k) == IF k = 0 THEN <<>> ELSE <<k % Base>> \o Digits(k \div Base)
        RECURSIVE Add(_, _, _)
        Add(a, b, carry) ==
            IF a = <<>> /\ b = <<>> THEN Digits(carry)
            ELSE LET s == First(a) + First(b) + carry
                 IN <<s % Base>> \o Add(Rest(a), Rest(b), s \div Base)
        RECURSIVE Sub(_, _, _)
        Sub(a, b, borrow) ==
            IF a = <<>> THEN <<>>
            ELSE LET s == a[1] - First(b) - borrow
                 IN <<s % Base>> \o Sub(Tail(a), Rest(b), IF s < 0 THEN 1 ELSE 0)
        RECURSIVE CmpTop(_, _)
        CmpTop(a, b) ==
            IF Len(a) # Len(b) THEN (IF Len(a) > Len(b) THEN 1 ELSE -1)
            ELSE IF a = <<>> THEN 0
            ELSE IF a[Len(a)] # b[Len(b)] THEN (IF a[Len(a)] > b[Len(b)] THEN 1 ELSE -1)
            ELSE CmpTop(SubSeq(a, 1, Len(a) - 1), SubSeq(b, 1, Len(b) - 1))
        Cmp(a, b) == CmpTop(Norm(a), Norm(b))
        RECURSIVE Mul(_, _, _)
        Mul(a, k, carry) ==
            IF a = <<>> THEN Digits(carry)
            ELSE LET p == a[1] * k + carry
                 IN <<p % Base>> \o Mul(Tail(a), k, p \div Base)
        RECURSIVE DivMod(_, _)
        DivMod(a, d) ==
            IF a = <<>> THEN [q |-> <<>>, r |-> 0]
            ELSE LET hi == DivMod(Tail(a), d)
                     rem == hi.r * Base + a[1]
                 IN [q |-> <<rem \div d>> \o hi.q, r |-> rem % d]
        \* to 53 significant bits, halves to even; sticky: a remainder was cut off
        Round53(a, sticky) ==
            LET digits == Norm(a)
                top == IF digits = <<>> THEN 0 ELSE digits[Len(digits)]
                cut == Width * (Len(digits) - 1)
                           + Cardinality({i \in 0..(Width - 1) : 2^i <= top}) - 53
                BitAt(pos) == (digits[(pos \div Width) + 1] \div 2^(pos % Width)) % 2
                j == cut \div Width
                o == cut % Width
                rest == sticky \/ \E pos \in 0..(cut - 2) : BitAt(pos) = 1
                up == BitAt(cut - 1) = 1 /\ (rest \/ BitAt(cut) = 1)
                kept == [i \in 1..Len(digits) |->
                            IF i <= j THEN 0
                            ELSE IF i = j + 1 THEN (digits[i] \div 2^o) * 2^o
                            ELSE digits[i]]
            IN IF digits = <<>> \/ cut <= 0 THEN digits
               ELSE IF up THEN Add(kept, Shl(<<2^o>>, j), 0) ELSE kept
        Zero == [neg |-> FALSE, mag |-> <<>>]
        Neg(x) == [x EXCEPT !.neg = ~@]
        \* the float sum of two floats
        Plus(x, y) ==
            LET exact == IF x.neg = y.neg THEN [neg |-> x.neg, mag |-> Add(x.mag, y.mag, 0)]
                         ELSE IF Cmp(x.mag, y.mag) >= 0
                              THEN [neg |-> x.neg, mag |-> Norm(Sub(x.mag, y.mag, 0))]
                              ELSE [neg |-> y.neg, mag |-> Norm(Sub(y.mag, x.mag, 0))]
            IN [neg |-> exact.neg, mag |-> Round53(exact.mag, FALSE)]
        \* the float nearest to c hundredths
        Float(c) ==
            LET scaled == DivMod(Shl(Digits(c), Scale), 100)
            IN [neg |-> FALSE, mag |-> Round53(scaled.q, scaled.r # 0)]
        RECURSIVE Kahan(_)
        Kahan(k) ==
            IF k = 0 THEN [sum |-> Zero, comp |-> Zero]
            ELSE LET before == Kahan(k - 1)
                     y == Plus(Float(amounts[k]), Neg(before.comp))
                     t == Plus(before.sum, y)
                 IN [sum |-> t, comp |-> Plus(Plus(t, Neg(before.sum)), Neg(y))]
        count == Len(amounts)
        quotient == DivMod(Kahan(count).sum.mag, count)
        mean == Round53(quotient.q, quotient.r # 0)
    IN Cmp(Mul(mean, 100 * count, 0), Shl(Digits(SumSeq(amounts, count)), Scale))

\* the None a summary entry is created with
NoneRate == [kind |-> "none"]

\* variant: the mean taken without the test for an empty slice
SliceRateUnguarded(values) == Mean(values)

\* "if len(slice) > 0: summary[key] = slice[column].mean()", the entry
\* staying None otherwise
SliceRate(values) == IF Len(values) > 0 THEN Mean(values) ELSE NoneRate

\* Timestamp.isoformat(): the date and the time of day, here the day number and H, M, S
IsoFormat(ts) == <<ts \div 86400, Hour(ts), (ts \div 60) % 60, ts % 60>>

RECURSIVE MinTimestamp(_, _)
\* df['timestamp'].min() over the first k rows
MinTimestamp(table, k) ==
    IF k = 1 THEN table[1].timestamp
    ELSE Min(MinTimestamp(table, k - 1), table[k].timestamp)

RECURSIVE MaxTimestamp(_, _)
\* df['timestamp'].max() over the first k rows
MaxTimestamp(table, k) ==
    IF k = 1 THEN table[1].timestamp
    ELSE Max(MaxTimestamp(table, k - 1), table[k].timestamp)

\* variant: an all() that is False over no rows
IsnaAllOfSome(records, column) ==
    /\ Len(records) > 0
    /\ \A i \in 1..Len(records) : IsNa(records[i][column])

\* records[column].isna().all(), which is True over no rows
IsnaAll(records, column) == \A i \in 1..Len(records) : IsNa(records[i][column])

\* get_data_summary(df) for a table with at least one row
get_data_summary(table) ==
    LET weekend_billpay ==
            SelectSeq(table, LAMBDA r : r.transaction_type = "Bill Payment" /\ r.is_weekend = 1)
        high_value == SelectSeq(table, LAMBDA r : r.amount_inr > HIGH_VALUE_THRESHOLD)
        p2p_records == SelectSeq(table, LAMBDA r : r.transaction_type = "P2P")
        non_p2p_records == SelectSeq(table, LAMBDA r : r.transaction_type # "P2P")
        types == {table[i].transaction_type : i \in 1..Len(table)}
        devices == {table[i].device_type : i \in 1..Len(table)}
    IN [total_records |-> Len(table),
        date_range |-> [start |-> IsoFormat(MinTimestamp(table, Len(table))),
                        end |-> IsoFormat(MaxTimestamp(table, Len(table)))],
        transaction_type_distribution |->
            [t \in types |-> Cardinality({i \in 1..Len(table) : table[i].transaction_type = t})],
        overall_failure_rate |-> Mean(FailedColumn(table)),
        fraud_flag_rate |-> Mean(FraudColumn(table)),
        avg_amount_by_device |->
            [dv \in devices |->
                LET amounts == AmountColumn(SelectSeq(table, LAMBDA r : r.device_type = dv))
                IN [kind |-> "value", num |-> SumSeq(amounts, Len(amounts)),
                    den |-> Len(amounts), side |-> FloatMeanSide(amounts)]],
        weekend_billpay_failure_rate |-> SliceRate(FailedColumn(weekend_billpay)),
        high_value_fraud_rate |-> SliceRate(FraudColumn(high_value)),
        p2p_null_merchant_check |-> IsnaAll(p2p_records, "merchant_category"),
        non_p2p_null_receiver_age_check |-> IsnaAll(non_p2p_records, "receiver_age_group")]

\* one entry of validate_data's list: the rule, the count and the text of the message
RuleMessage(rule, count, text) == [rule |-> rule, count |-> count, text |-> text]

\* variant: only the first violated rule is reported
AppendIfAnyFirstOnly(errs, selection, rule, text) ==
    IF Len(selection) > 0 /\ errs = <<>>
    THEN Append(errs, RuleMessage(rule, Len(selection), text))
    ELSE errs

\* errors.append(message) when the selection is not empty
AppendIfAny(errs, selection, rule, text) ==
    IF Len(selection) > 0
    THEN Append(errs, RuleMessage(rule, Len(selection), text))
    ELSE errs

\* validate_data(df)
validate_data(table) ==
    LET non_p2p_types == <<"P2M", "Bill Payment", "Recharge">>
        p2p_with_merchant ==
            SelectSeq(table, LAMBDA r :
                r.transaction_type = "P2P" /\ ~IsNa(r.merchant_category))
        p2p_without_receiver ==
            SelectSeq(table, LAMBDA r :
                r.transaction_type = "P2P" /\ IsNa(r.receiver_age_group))
        non_p2p_with_receiver ==
            SelectSeq(table, LAMBDA r :
                IsIn(r.transaction_type, non_p2p_types) /\ ~IsNa(r.receiver_age_group))
        non_p2p_without_merchant ==
            SelectSeq(table, LAMBDA r :
                IsIn(r.transaction_type, non_p2p_types) /\ IsNa(r.merchant_category))
        e1 == AppendIfAny(<<>>, p2p_with_merchant, "A",
                          "P2P transactions have non-null merchant_category")
        e2 == AppendIfAny(e1, p2p_without_receiver, "A",
                          "P2P transactions have null receiver_age_group")
        e3 == AppendIfAny(e2, non_p2p_with_receiver, "B",
                          "non-P2P transactions have non-null receiver_age_group")
        e4 == AppendIfAny(e3, non_p2p_without_merchant, "B",
                          "non-P2P transactions have null merchant_category")
    IN e4

-----------------------------------------------------------------------------
(* Bounds and the inputs of the model.                                     *)

\* rows a generate_data call is asked for: 1..MaxRows
MaxRows == 2
\* draws taken from one seeded stream before it is seeded again, in records
MaxStream == 2
\* rows of a table handed to validate_data / get_data_summary from outside
MaxInputRows == 2

\* the seed argument of MockDataGenerator(seed): None or an integer
Seeds == {42}
SeedArgs == {<<>>} \cup {<<s>> : s \in Seeds}

\* readings of datetime.now(): Thursday 2026-10-29 23:59:59 and the second after
Clocks == {1793318399, 1793318400}
FirstClock == CHOOSE c \in Clocks : \A o \in Clocks : c <= o

\* the caller's variables that receive a table: df in generate_and_save_dataset,
\* and a second one for a caller that generates twice
Slots == {1, 2}

\* values of uuid.uuid4().hex[:12].upper()
Uuids == {"0A1B2C3D4E5F", "F5E4D3C2B1A0"}

\* one record's draws: secs is the randint of _generate_timestamp, ez the
\* log-normal draw, mcat the random.choice of _get_merchant_category, the others
\* are the uniform draws of the weighted choices and of the two Bernoulli tests
DrawVector(secs, type, device, ez, mcat, fail, fraud, rage, sage, state, sbank, rbank, net) ==
    [secs |-> secs, type |-> type, device |-> device, ez |-> ez, mcat |-> mcat,
     fail |-> fail, fraud |-> fraud, rage |-> rage, sage |-> sage, state |-> state,
     sbank |-> sbank, rbank |-> rbank, net |-> net]

\* randint(0, 30 days of seconds): the window's start, four days in, its end
SecsDraws == {0, 345600, DaySeconds(DAYS_BACK)}
\* on each threshold the code compares a uniform draw with, and beside it
TypeDraws == {35, 70, 71, 99}
DeviceDraws == {60, 61, 90}
FailDraws == {4, 5, 19, 20}
FraudDraws == {1, 2, 9, 10}
EndDraws == {0, 99}
\* e^z in thousandths: far below, near and far above the median
EzDraws == {1, 6, 1000, 2700, 8000}
McatDraws == {0, 3}

\* draws that vary what a record looks like: its instant, type, device, amount
\* and merchant; the six weighted choices whose result no branch of the
\* generator reads (the two age groups, state, banks, network) move together
FieldDraws ==
    {DrawVector(secs, type, device, ez, mcat, 5, 2, c, c, c, c, c, c) :
        secs \in SecsDraws, type \in TypeDraws, device \in DeviceDraws,
        ez \in EzDraws, mcat \in McatDraws, c \in EndDraws}

\* draws that vary what _determine_failure_status reads: the type, the day and
\* its own uniform draw
StatusDraws ==
    {DrawVector(secs, type, 90, 2700, 0, fail, 2, 0, 0, 0, 0, 0, 0) :
        secs \in SecsDraws, type \in TypeDraws, fail \in FailDraws}

\* draws that vary what _determine_fraud_flag reads: the amount, through the
\* type, the device and the log-normal draw, and its own uniform draw
FlagDraws ==
    {DrawVector(0, type, device, ez, 0, 5, fraud, 0, 0, 0, 0, 0, 0) :
        type \in TypeDraws, device \in DeviceDraws, ez \in EzDraws,
        fraud \in FraudDraws}

\* the draws of a directly generated record
TxnDraws == FieldDraws \cup StatusDraws \cup FlagDraws

\* the draws of the rows of a generated table: a weekday or a weekend instant,
\* P2P or Bill Payment, on the Web, where a P2P amount is above the high-value
\* threshold
TableDraws ==
    {DrawVector(secs, type, 90, 2700, 0, 5, 2, 0, 0, 0, 0, 0, 0) :
        secs \in {0, 345600}, type \in {35, 71}}

-----------------------------------------------------------------------------------------------------------------------------------------------------
(* The seeded streams.  random.seed(s) and np.random.seed(s) fix every     *)
(* later draw of the two global streams; tape[s] keeps what the stream of  *)
(* seed s has yielded, so that a later use of the same seed repeats it.    *)

\* the global streams after __init__(seed): re-seeded only when seed is not None
Seeded(seed) ==
    IF seed # <<>> THEN [seeded |-> TRUE, seed |-> seed[1], pos |-> 0] ELSE rng

\* the sequences of n draw vectors the global streams in state r can yield next
StreamDrawsFrom(r, D, n) ==
    IF ~r.seeded
    THEN [1..n -> D]
    ELSE LET known == tape[r.seed]
             k == Min(n, Max(0, Len(known) - r.pos))
         IN {SubSeq(known, r.pos + 1, r.pos + k) \o f : f \in [1..(n - k) -> D]}

StreamDraws(D, n) == StreamDrawsFrom(rng, D, n)

\* the streams, in state r, after yielding ds
AdvanceFrom(r, ds) ==
    /\ rng' = IF r.seeded THEN [r EXCEPT !.pos = @ + Len(ds)] ELSE r
    /\ tape' = IF r.seeded /\ r.pos + Len(ds) > Len(tape[r.seed])
               THEN [tape EXCEPT ![r.seed] = SubSeq(@, 1, r.pos) \o ds]
               ELSE tape

Advance(ds) == AdvanceFrom(rng, ds)

\* the readings of n successive calls of datetime.now()
NowSeqs(n) ==
    {s \in [1..n -> Clocks] :
        /\ s[1] >= clock
        /\ \A i \in 1..(n - 1) : s[i] <= s[i + 1]}

\* the exception that ends a run of generate_single_transaction, <<>> if none
\* does: which statement raises does not depend on the draws, the uuid or the
\* clock, so it is read off the run for one choice of them
single_transaction_exception ==
    Execute(Len(statements), CHOOSE d \in TableDraws : TRUE, CHOOSE u \in Uuids : TRUE,
            FirstClock).raised

\* a statement of the first record raises: the clock has been read and the
\* streams are left part-way through a record, at a position the tape does not
\* describe
RaiseInRecord(r) ==
    /\ \E nows \in NowSeqs(1) : clock' = nows[1]
    /\ rng' = [r EXCEPT !.seeded = FALSE]
    /\ tape' = tape
    /\ exc' = single_transaction_exception

-----------------------------------------------------------------------------
(* What generate_and_save_dataset prints.                                  *)

\* round-half-even of num / den, for den > 0
RoundDiv(num, den) ==
    LET q == num \div den
        r2 == 2 * (num % den)
    IN IF r2 < den THEN q
       ELSE IF r2 > den THEN q + 1
       ELSE IF q % 2 = 0 THEN q ELSE q + 1

\* one printed line: its fixed text and the value formatted into it
Line(text, value) == [text |-> text, value |-> value]

\* f"{rate:.1%}": tenths of a percent; None has no such format (TypeError)
FormatPercent(rate) == RoundDiv(rate.num * 1000, rate.den)

\* f"{avg:,.2f}" of a mean of amounts, in paise: the decimal nearest to the
\* float, which for a mean of an exact half paisa is the one on the float's side
FormatAmount(avg) ==
    IF 2 * (avg.num % avg.den) = avg.den /\ avg.side # 0
    THEN (avg.num \div avg.den) + (IF avg.side > 0 THEN 1 ELSE 0)
    ELSE RoundDiv(avg.num, avg.den)

\* the lines printed for the list validate_data returned
ValidationLines(errs) ==
    IF errs # <<>>
    THEN <<Line("Validation errors found:", <<>>)>>
            \o [i \in 1..Len(errs) |-> Line("  - ", errs[i])]
    ELSE <<Line("Data validation passed!", <<>>)>>

\* the summary lines up to the first slice rate
SummaryHead(s) ==
    <<Line("Dataset Summary:", <<>>),
      Line("Total records", s.total_records),
      Line("Date range", <<s.date_range.start[1], s.date_range.end[1]>>),
      Line("Overall failure rate", FormatPercent(s.overall_failure_rate)),
      Line("Overall fraud flag rate", FormatPercent(s.fraud_flag_rate))>>

RECURSIVE DeviceLines(_, _)
\* one line per device of avg_amount_by_device, in the order of devices
DeviceLines(s, devices) ==
    IF devices = <<>> THEN <<>>
    ELSE (IF devices[1] \in DOMAIN s.avg_amount_by_device
          THEN <<Line(devices[1], FormatAmount(s.avg_amount_by_device[devices[1]]))>>
          ELSE <<>>) \o DeviceLines(s, Tail(devices))

\* the print statements of generate_and_save_dataset that follow validate_data
\* and get_data_summary, up to the first that raises: [lines, raised]
Report(errs, s) ==
    LET head == ValidationLines(errs) \o SummaryHead(s)
        wb == s.weekend_billpay_failure_rate
        hv == s.high_value_fraud_rate
    IN IF wb.kind = "none"
       THEN [lines |-> head, raised |-> <<"TypeError">>]
       ELSE LET withWb == Append(head, Line("Weekend Bill Payment failure rate",
                                            FormatPercent(wb)))
            IN IF hv.kind = "none"
               THEN [lines |-> withWb, raised |-> <<"TypeError">>]
               ELSE [lines |-> withWb
                                \o <<Line("High-value (>50k) fraud rate", FormatPercent(hv)),
                                     Line("Avg Amount by Device", <<>>)>>
                                \o DeviceLines(s, <<"Android", "Web", "iOS">>),
                     raised |-> <<>>]

-----------------------------------------------------------------------------
(* Operations.                                                             *)

\* the process before any generator exists, for the class attributes and the
\* output path it finds
Start(attributes, writable) ==
    /\ gen = <<>>
    /\ rng = [seeded |-> FALSE, seed |-> 0, pos |-> 0]
    /\ tape = [s \in Seeds |-> <<>>]
    /\ clock = FirstClock
    /\ cfg = attributes
    /\ fs = [writable |-> writable, file |-> <<>>]
    /\ txn = <<>>
    /\ drawn = <<>>
    /\ df = [v \in Slots |-> <<>>]
    /\ run = [v \in Slots |-> <<>>]
    /\ errors = <<>>
    /\ summary = <<>>
    /\ exc = <<>>
    /\ out = <<>>
    /\ ret = <<>>
    /\ made = <<>>
    /\ session_state = <<>>

\* the class as written, and an output path that can be written
Init == Start([DEVICE_WEIGHTS |-> DEVICE_WEIGHTS], TRUE)

\* a MockDataGenerator as __init__ leaves it
MockDataGenerator(seed) == [seed |-> seed, asked |-> FALSE]

\* generator = MockDataGenerator(seed): random.seed and np.random.seed re-seed
\* the global streams only when seed is not None; nothing is validated
Construct(seed) ==
    /\ gen' = <<MockDataGenerator(seed)>> \o (IF gen = <<>> THEN <<>> ELSE Tail(gen))
    /\ rng' = Seeded(seed)
    /\ exc' = <<>>
    /\ UNCHANGED <<tape, clock, cfg, session_state, fs, txn, drawn, made, df, run, errors, summary, out, ret>>

\* other = MockDataGenerator(seed), while generator is alive
ConstructOther(seed) ==
    /\ gen # <<>>
    /\ gen' = <<gen[1], MockDataGenerator(seed)>>
    /\ rng' = Seeded(seed)
    /\ exc' = <<>>
    /\ UNCHANGED <<tape, clock, cfg, session_state, fs, txn, drawn, made, df, run, errors, summary, out, ret>>

\* a direct call of generator.generate_single_transaction()
GenerateSingle(D) ==
    /\ gen # <<>>
    /\ gen' = [gen EXCEPT ![1].asked = TRUE]
    /\ IF single_transaction_exception # <<>>
       THEN /\ RaiseInRecord(rng)
            /\ UNCHANGED <<txn, drawn, made>>
       ELSE /\ \E ds \in StreamDraws(D, 1), u \in Uuids, nows \in NowSeqs(1) :
                  /\ txn' = <<generate_single_transaction(ds[1], u, nows[1])>>
                  /\ drawn' = ds
                  /\ made' = <<[now |-> nows[1],
                               order |-> Execute(Len(statements), ds[1], u, nows[1]).order]>>
                  /\ Advance(ds)
                  /\ clock' = nows[1]
            /\ exc' = <<>>
    /\ UNCHANGED <<cfg, session_state, fs, df, run, errors, summary, out, ret>>

\* other.generate_single_transaction(), its record dropped
DrawOther(D) ==
    /\ Len(gen) = 2
    /\ rng.seeded => rng.pos + 1 <= MaxStream
    /\ gen' = [gen EXCEPT ![2].asked = TRUE]
    /\ IF single_transaction_exception # <<>>
       THEN RaiseInRecord(rng)
       ELSE /\ \E ds \in StreamDraws(D, 1), nows \in NowSeqs(1) :
                  /\ Advance(ds)
                  /\ clock' = nows[1]
            /\ exc' = <<>>
    /\ UNCHANGED <<cfg, session_state, fs, txn, drawn, made, df, run, errors, summary, out, ret>>

\* the generate_data call of generator for caller variable v, as run[v] keeps it
Call(num_rows, ds, raised) ==
    [seed |-> gen[1].seed, n |-> num_rows,
     fresh |-> rng.seeded /\ rng.pos = 0 /\ gen[1].seed = <<rng.seed>>,
     first |-> ~gen[1].asked,
     draws |-> ds,
     raised |-> raised]

\* v = generator.generate_data(num_rows).  For num_rows <= 0 the list of records
\* is empty, pd.DataFrame([]) has no column and sort_values('timestamp') raises
\* KeyError; v is assigned only when the call returns.
GenerateData(D, num_rows, v) ==
    /\ gen # <<>>
    /\ rng.seeded => rng.pos + num_rows <= MaxStream
    /\ gen' = [gen EXCEPT ![1].asked = TRUE]
    /\ IF num_rows <= 0
       THEN /\ exc' = <<"KeyError">>
            /\ run' = [run EXCEPT ![v] = <<Call(num_rows, <<>>, "KeyError")>>]
            /\ UNCHANGED <<rng, tape, clock, df, errors, summary>>
       ELSE IF single_transaction_exception # <<>>
       THEN /\ RaiseInRecord(rng)
            /\ run' = [run EXCEPT ![v] = <<Call(num_rows, <<>>, single_transaction_exception[1])>>]
            /\ UNCHANGED <<df, errors, summary>>
       ELSE /\ \E ds \in StreamDraws(D, num_rows), us \in [1..num_rows -> Uuids],
                  nows \in NowSeqs(num_rows) :
                  LET transactions ==
                          [i \in 1..num_rows |->
                              generate_single_transaction(ds[i], us[i], nows[i])]
                  IN /\ df' = [df EXCEPT ![v] = <<assemble(transactions)>>]
                     /\ run' = [run EXCEPT ![v] = <<Call(num_rows, ds, "")>>]
                     /\ Advance(ds)
                     /\ clock' = nows[num_rows]
            /\ errors' = IF v = 1 THEN <<>> ELSE errors
            /\ summary' = IF v = 1 THEN <<>> ELSE summary
            /\ exc' = <<>>
    /\ UNCHANGED <<cfg, session_state, fs, txn, drawn, made, out, ret>>

\* errors = generator.validate_data(df)
ValidateData ==
    /\ gen # <<>>
    /\ df[1] # <<>>
    /\ errors' = <<validate_data(df[1][1])>>
    /\ exc' = <<>>
    /\ UNCHANGED <<gen, rng, tape, clock, cfg, session_state, fs, txn, drawn, made, df, run, summary, out, ret>>

\* summary = generator.get_data_summary(df)
GetDataSummary ==
    /\ gen # <<>>
    /\ df[1] # <<>>
    /\ summary' = <<get_data_summary(df[1][1])>>
    /\ exc' = <<>>
    /\ UNCHANGED <<gen, rng, tape, clock, cfg, session_state, fs, txn, drawn, made, df, run, errors, out, ret>>

\* df.to_csv(output_path, index=False): one line per row, a None written as
\* an empty field
to_csv(table) ==
    [i \in 1..Len(table) |->
        [table[i] EXCEPT !.merchant_category = IF IsNa(@) THEN "" ELSE @,
                         !.receiver_age_group = IF IsNa(@) THEN "" ELSE @]]

\* generate_and_save_dataset(output_path, num_rows, seed), from its first line to
\* its return or to the exception that leaves it.  generator, df, errors and
\* summary are its local variables; ret is assigned only when it returns.
GenerateAndSaveDataset(D, num_rows, seed) ==
    LET r0 == Seeded(seed)
        call(ds, raised) ==
            [seed |-> seed, n |-> num_rows, fresh |-> seed # <<>>, first |-> TRUE,
             draws |-> ds, raised |-> raised]
    IN /\ r0.seeded => r0.pos + num_rows <= MaxStream
       /\ gen' = <<[seed |-> seed, asked |-> TRUE]>> \o (IF gen = <<>> THEN <<>> ELSE Tail(gen))
       /\ IF num_rows <= 0
          THEN /\ exc' = <<"KeyError">>
               /\ rng' = r0
               /\ run' = [run EXCEPT ![1] = <<call(<<>>, "KeyError")>>]
               /\ UNCHANGED <<tape, clock, fs, df, errors, summary, out, ret>>
          ELSE IF single_transaction_exception # <<>>
          THEN /\ RaiseInRecord(r0)
               /\ run' = [run EXCEPT ![1] = <<call(<<>>, single_transaction_exception[1])>>]
               /\ UNCHANGED <<fs, df, errors, summary, out, ret>>
          ELSE \E ds \in StreamDrawsFrom(r0, D, num_rows), us \in [1..num_rows -> Uuids],
                  nows \in NowSeqs(num_rows) :
                  LET transactions ==
                          [i \in 1..num_rows |->
                              generate_single_transaction(ds[i], us[i], nows[i])]
                      table == assemble(transactions)
                      errs == validate_data(table)
                      s == get_data_summary(table)
                      report == Report(errs, s)
                  IN /\ df' = [df EXCEPT ![1] = <<table>>]
                     /\ run' = [run EXCEPT ![1] = <<call(ds, "")>>]
                     /\ AdvanceFrom(r0, ds)
                     /\ clock' = nows[num_rows]
                     /\ errors' = <<errs>>
                     /\ summary' = <<s>>
                     /\ IF report.raised # <<>>
                        THEN /\ out' = report.lines
                             /\ exc' = report.raised
                             /\ UNCHANGED <<fs, ret>>
                        ELSE IF ~fs.writable
                        THEN /\ out' = report.lines
                             /\ exc' = <<"OSError">>
                             /\ UNCHANGED <<fs, ret>>
                        ELSE /\ fs' = [fs EXCEPT !.file = <<to_csv(table)>>]
                             /\ out' = Append(report.lines, Line("Dataset saved to", <<>>))
                             /\ exc' = <<>>
                             /\ ret' = <<table>>
       /\ UNCHANGED <<cfg, session_state, txn, drawn, made>>

-----
(* Spec: generators are constructed, the last one is asked once, for a     *)
(* record or for a table, and the table is validated and summarised.       *)

\* the generator has not been asked for anything yet
NothingGenerated == txn = <<>> /\ exc = <<>> /\ \A v \in Slots : df[v] = <<>>

Next ==
    \/ \E seed \in SeedArgs : NothingGenerated /\ Construct(seed)
    \/ NothingGenerated /\ GenerateSingle(TxnDraws)
    \/ \E n \in 0..MaxRows : NothingGenerated /\ GenerateData(TableDraws, n, 1)
    \/ ValidateData
    \/ GetDataSummary

Spec == Init /\ [][Next]_vars

(* SpecRerun: a caller constructs generators and generates a first and a   *)
(* second table, each kept in a variable of its own.                       *)

NextRerun ==
    \/ \E seed \in SeedArgs : Construct(seed)
    \/ \E n \in 1..MaxRows, v \in Slots :
          /\ df[v] = <<>>
          /\ \A w \in Slots : w < v => df[w] # <<>>
          /\ GenerateData(TableDraws, n, v)

SpecRerun == Init /\ [][NextRerun]_vars

(* SpecShared: a caller generates a first and a second table of one row,   *)
(* and a second generator may be constructed and asked for records in      *)
(* between.                                                                *)

NextShared ==
    \/ \E seed \in SeedArgs : Construct(seed)
    \/ \E seed \in SeedArgs : ConstructOther(seed)
    \/ DrawOther(TableDraws)
    \/ \E v \in Slots :
          /\ df[v] = <<>>
          /\ \A w \in Slots : w < v => df[w] # <<>>
          /\ GenerateData(TableDraws, 1, v)

SpecShared == Init /\ [][NextShared]_vars

(* SpecConfig: the class attributes may have been edited into a malformed  *)
(* weight table before the process starts.                                 *)

\* DEVICE_WEIGHTS as written, one weight short, and summing to zero
Configs == {[DEVICE_WEIGHTS |-> w] : w \in {DEVICE_WEIGHTS, <<60, 30>>, <<0, 0, 0>>}}

InitConfig == \E attributes \in Configs : Start(attributes, TRUE)

NextConfig ==
    \/ \E seed \in SeedArgs : NothingGenerated /\ Construct(seed)
    \/ NothingGenerated /\ GenerateSingle(TableDraws)
    \/ \E n \in 1..MaxRows : NothingGenerated /\ GenerateData(TableDraws, n, 1)

SpecConfig == InitConfig /\ [][NextConfig]_vars

(* SpecSave: one run of the command-line entry point, whose output path    *)
(* can or cannot be written.                                               *)

InitSave == \E writable \in BOOLEAN : Start([DEVICE_WEIGHTS |-> DEVICE_WEIGHTS], writable)

NextSave ==
    \E seed \in SeedArgs, n \in 0..MaxRows :
        /\ NothingGenerated
        /\ out = <<>>
        /\ GenerateAndSaveDataset(TableDraws, n, seed)

SpecSave == InitSave /\ [][NextSave]_vars

(* SpecInput: validate_data and get_data_summary applied to a table handed *)
(* in from outside, which need not satisfy the generator's rules.          *)

\* a row of such a table: the columns the validator and the summarizer read
\* are given, the derived ones follow the timestamp, the others are fixed
InputRow(timestamp, transaction_type, merchant_category, receiver_age_group, amount_inr, transaction_status, fraud_flag) ==
    [transaction_id |-> generate_transaction_id("0A1B2C3D4E5F"),
     timestamp |-> timestamp,
     transaction_type |-> transaction_type,
     merchant_category |-> merchant_category,
     amount_inr |-> amount_inr,
     transaction_status |-> transaction_status,
     sender_age_group |-> "18-25",
     receiver_age_group |-> receiver_age_group,
     sender_state |-> "Maharashtra",
     sender_bank |-> "SBI",
     receiver_bank |-> "SBI",
     device_type |-> "Android",
     network_type |-> "4G",
     fraud_flag |-> fraud_flag,
     hour_of_day |-> calculate_derived_fields(timestamp).hour_of_day,
     day_of_week |-> calculate_derived_fields(timestamp).day_of_week,
     is_weekend |-> calculate_derived_fields(timestamp).is_weekend]

\* Tuesday 2026-09-29 23:59:59 and Saturday 2026-10-03 23:59:59
InputTimestamps ==
    {generate_timestamp(DAYS_BACK, FirstClock, secs) : secs \in {0, 345600}}

\* rows that keep or break the nullability rules, in every combination
RuleRows ==
    {InputRow(generate_timestamp(DAYS_BACK, FirstClock, 0), type, merchant, receiver,
              50000, "SUCCESS", 0) :
        type \in {TRANSACTION_TYPES[i] : i \in 1..Len(TRANSACTION_TYPES)},
        merchant \in {NoneVal, "Food"}, receiver \in {NoneVal, "18-25"}}

\* rows inside and outside the two slices the summary takes rates over
SliceRows ==
    {InputRow(ts, type, IF type = "P2P" THEN NoneVal ELSE "Utilities",
              IF type = "P2P" THEN "18-25" ELSE NoneVal, amount, status, fraud) :
        ts \in InputTimestamps, type \in {"P2P", "Bill Payment"},
        amount \in {HIGH_VALUE_THRESHOLD, HIGH_VALUE_THRESHOLD + 1},
        status \in {"SUCCESS", "FAILED"}, fraud \in {0, 1}}

InputTables(Rows) == UNION {[1..n -> Rows] : n \in 1..MaxInputRows}

InitInput ==
    /\ gen = <<MockDataGenerator(<<>>)>>
    /\ rng = [seeded |-> FALSE, seed |-> 0, pos |-> 0]
    /\ tape = [s \in Seeds |-> <<>>]
    /\ clock = FirstClock
    /\ cfg = [DEVICE_WEIGHTS |-> DEVICE_WEIGHTS]
    /\ fs = [writable |-> TRUE, file |-> <<>>]
    /\ txn = <<>>
    /\ drawn = <<>>
    /\ \E table \in InputTables(RuleRows) \cup InputTables(SliceRows) :
          df = [v \in Slots |-> IF v = 1 THEN <<table>> ELSE <<>>]
    /\ run = [v \in Slots |-> <<>>]
    /\ errors = <<>>
    /\ summary = <<>>
    /\ exc = <<>>
    /\ out = <<>>
    /\ ret = <<>>
    /\ made = <<>>
    /\ session_state = <<>>

NextInput ==
    \/ ValidateData
    \/ GetDataSummary

SpecInput == InitInput /\ [][NextInput]_vars

-----------------------------------------------------------------------------
(* The chat sessions of the Streamlit application (src/src/app.py,         *)
(* components/sidebar.py, pages/chat_history.py, components/               *)
(* alert_banner.py).  session_state holds the keys of st.session_state     *)
(* that init_session_state sets.  The dict st.session_state["sessions"] is *)
(* a sequence of entries [id, title, messages] in insertion order, which   *)
(* is the order list(sessions.keys()) and the session lists rely on.  A    *)
(* text is a string; a chat message is a record with role and content,     *)
(* and response_data for an answer.                                        *)

\* the lower-case letter of every upper-case letter
LowerOf ==
    LET UPPERCASE == "ABCDEFGHIJKLMNOPQRSTUVWXYZ"
        LOWERCASE == "abcdefghijklmnopqrstuvwxyz"
    IN [c \in {SubSeq(UPPERCASE, k, k) : k \in 1..Len(UPPERCASE)} |->
           LET k == CHOOSE j \in 1..Len(UPPERCASE) : SubSeq(UPPERCASE, j, j) = c
           IN SubSeq(LOWERCASE, k, k)]

RECURSIVE Lower(_)
\* user_message.lower()
Lower(text) ==
    IF Len(text) = 0 THEN ""
    ELSE LET c == SubSeq(text, Len(text), Len(text))
         IN Lower(SubSeq(text, 1, Len(text) - 1))
                \o (IF c \in DOMAIN LowerOf THEN LowerOf[c] ELSE c)

\* word in text
In(word, text) ==
    \E i \in 1..(Len(text) - Len(word) + 1) : SubSeq(text, i, i + Len(word) - 1) = word

\* the dicts get_mock_response returns
FAILURE_CARD ==
    [type |-> "insight_card",
     answer |-> "The failure rate for Bill Payments is 8.2%.",
     metric_value |-> "8.2%",
     metric_label |-> "Failure Rate",
     delta |-> "+3% vs Avg",
     insight |-> "High timeouts detected in HDFC Bank gateway. Bill Payment transactions show elevated failure rates, particularly during peak hours (2-4 PM). The primary error code is GATEWAY_TIMEOUT, suggesting infrastructure issues rather than user errors.",
     code |-> "df[df['transaction_status']=='FAILED'].groupby('transaction_type').size() / df.groupby('transaction_type').size() * 100"]

VOLUME_CARD ==
    [type |-> "multi_metric",
     answer |-> "Transaction volume analysis across different time periods.",
     title |-> "Volume Analysis",
     metrics |-> <<[label |-> "Daily Avg", value |-> "16.7", delta |-> NoneVal],
                   [label |-> "Weekend", value |-> "12.8", delta |-> "-23%"],
                   [label |-> "Weekday", value |-> "18.2", delta |-> "+9%"]>>,
     insight |-> "Weekend transaction volume is 23% lower than weekdays, but average transaction value is 27% higher. This suggests users make fewer but larger transactions on weekends.",
     code |-> "df.groupby('is_weekend').agg({'transaction_id': 'count', 'amount_inr': 'mean'})"]

WEEKEND_CARD ==
    [type |-> "multi_metric",
     answer |-> "Weekend vs Weekday comparison shows distinct patterns.",
     title |-> "Weekend vs Weekday Trends",
     metrics |-> <<[label |-> "Weekday Vol", value |-> "18.2", delta |-> NoneVal],
                   [label |-> "Weekend Vol", value |-> "12.8", delta |-> "-30%"],
                   [label |-> "Weekend AOV", value |-> "INR 3,120", delta |-> "+27%"]>>,
     insight |-> "Weekend transactions show 30% lower volume but 27% higher average order value. P2P dominates weekends while P2M peaks on weekdays.",
     code |-> "df.pivot_table(index='is_weekend', values=['amount_inr', 'transaction_id'], aggfunc={'amount_inr': 'mean', 'transaction_id': 'count'})"]

ANOMALY_CARD ==
    [type |-> "insight_card",
     answer |-> "Found 10 transactions flagged for review (2% of dataset).",
     metric_value |-> "10",
     metric_label |-> "Flagged Transactions",
     delta |-> "2% of total",
     insight |-> "70% of flagged transactions occurred during non-business hours (10 PM - 6 AM). 60% involved new sender-receiver pairs. Average flagged amount is 8x higher than normal transactions. Recommend manual review of 3 high-risk cases.",
     code |-> "df[df['fraud_flag']==1].groupby(['hour_of_day', 'transaction_type']).agg({'amount_inr': ['mean', 'count']})"]

BILL_PAYMENT_CARD ==
    [type |-> "insight_card",
     answer |-> "Bill Payment failure spike detected - root cause identified.",
     metric_value |-> "25%",
     metric_label |-> "Current Hour Failure Rate",
     delta |-> "+20% vs normal",
     insight |-> "83% of failures originate from a single biller: 'State Electricity Board'. Error code BILLER_TIMEOUT accounts for all failures. Issue began at 14:32 UTC. This appears to be an external dependency issue - recommend contacting biller integration team.",
     code |-> "df[(df['transaction_type']=='Bill Payment') & (df['timestamp'] > now - 2h)].groupby(['merchant_category', 'transaction_status']).size()"]

DEFAULT_RESPONSE(user_message) ==
    [type |-> "text",
     answer |-> "I am analyzing the dataset based on your query: '" \o user_message \o "'",
     insight |-> "This is a simulated response. Try asking about 'failure rates', 'volume trends', 'weekend patterns', or 'high-value anomalies' to see the full insight card UI.",
     code |-> NoneVal]

\* variant: the Bill Payment investigation tested ahead of the keywords
get_mock_response_bill_payment_first(user_message) ==
    LET message_lower == Lower(user_message)
    IN IF In("bill payment", message_lower)
          /\ (In("last 2 hours", message_lower) \/ In("investigate", message_lower))
       THEN BILL_PAYMENT_CARD
       ELSE IF In("fail", message_lower) THEN FAILURE_CARD
       ELSE IF In("volume", message_lower) THEN VOLUME_CARD
       ELSE IF In("weekend", message_lower) \/ In("weekday", message_lower) THEN WEEKEND_CARD
       ELSE IF In("anomal", message_lower) \/ In("high-value", message_lower)
               \/ In("fraud", message_lower)
       THEN ANOMALY_CARD
       ELSE DEFAULT_RESPONSE(user_message)

\* get_mock_response
get_mock_response(user_message) ==
    LET message_lower == Lower(user_message)
    IN IF In("fail", message_lower) THEN FAILURE_CARD
       ELSE IF In("volume", message_lower) THEN VOLUME_CARD
       ELSE IF In("weekend", message_lower) \/ In("weekday", message_lower) THEN WEEKEND_CARD
       ELSE IF In("anomal", message_lower) \/ In("high-value", message_lower)
               \/ In("fraud", message_lower)
       THEN ANOMALY_CARD
       ELSE IF In("bill payment", message_lower)
               /\ (In("last 2 hours", message_lower) \/ In("investigate", message_lower))
       THEN BILL_PAYMENT_CARD
       ELSE DEFAULT_RESPONSE(user_message)

\* d.get(key, default)
Get(d, key, default) == IF key \in DOMAIN d THEN d[key] ELSE default

\* the truth value of an optional text
Truthy(v) == v # NoneVal /\ v # ""

\* format_response_for_history: "\n\n".join(parts)
format_response_for_history(response) ==
    LET answer == Get(response, "answer", "")
        delta == Get(response, "delta", NoneVal)
        metric_str ==
            "**" \o Get(response, "metric_label", "Metric") \o ":** "
                \o Get(response, "metric_value", NoneVal)
                \o (IF Truthy(delta) THEN " (" \o delta \o ")" ELSE "")
        insight == Get(response, "insight", NoneVal)
    IN answer
        \o (IF Truthy(Get(response, "metric_value", NoneVal)) THEN "\n\n" \o metric_str ELSE "")
        \o (IF Truthy(insight) THEN "\n\n" \o "**Insight:** " \o insight ELSE "")

\* handle_alert_investigation: investigation_query
INVESTIGATION_QUERY ==
    "Analyze the high failure rate in Bill Payment category for the last 2 hours."

\* the queries of the suggestion buttons of _render_empty_state / _render_active_state
Suggestions ==
    {"What are the weekend failure rates compared to weekdays?",
     "Show me high-value transactions flagged for fraud.",
     "What is the weekly transaction volume trend?"}

\* the messages of the session init_session_state pre-fills the sessions with
MockMessages ==
    <<[role |-> "user", content |-> "What are the weekend failure rates?"],
      [role |-> "assistant",
       content |-> "Weekend failure rates are approximately 4.2% higher than weekday rates. Bill Payment shows the highest spike on Saturdays at 8.7% failure rate.",
       response_data |->
          [type |-> "insight_card",
           answer |-> "Weekend failure rates are approximately 4.2% higher than weekday rates.",
           metric_value |-> "4.2%",
           metric_label |-> "Weekend Variance",
           insight |-> "Bill Payment shows the highest spike on Saturdays at 8.7% failure rate."]]>>

\* the session init_session_state pre-fills st.session_state["sessions"] with
MockSession(mock_session_id) ==
    [id |-> mock_session_id,
     title |-> "Previous Analysis: Weekend Failures",
     messages |-> MockMessages]

\* {"title": "New Chat", "messages": []} under the key new_id
NewSession(new_id) == [id |-> new_id, title |-> "New Chat", messages |-> <<>>]

\* st.session_state[key] = value
Set(s, key, value) == (key :> value) @@ s

\* if key not in st.session_state: st.session_state[key] = value
SetDefault(s, key, value) == IF key \in DOMAIN s THEN s ELSE Set(s, key, value)

\* session_id in sessions
HasKey(sessions, session_id) == \E i \in 1..Len(sessions) : sessions[i].id = session_id

\* list(sessions.keys())
Keys(sessions) == [i \in 1..Len(sessions) |-> sessions[i].id]

\* the place of sessions[session_id] in the dict
IndexOf(sessions, session_id) == CHOOSE i \in 1..Len(sessions) : sessions[i].id = session_id

\* sessions[entry.id] = entry: a new key goes last, a known key keeps its place
SetItem(sessions, entry) ==
    IF HasKey(sessions, entry.id)
    THEN [sessions EXCEPT ![IndexOf(sessions, entry.id)] = entry]
    ELSE Append(sessions, entry)

\* del sessions[session_id]
DelItem(sessions, session_id) == SelectSeq(sessions, LAMBDA e : e.id # session_id)

\* init_session_state; new_id is the uuid4 it draws when it has a session to make
init_session_state(s, new_id) ==
    LET s1 == SetDefault(s, "pending_query", NoneVal)
        s2 == SetDefault(s1, "processing", FALSE)
        s3 == SetDefault(s2, "alert_investigated", FALSE)
        s4 == SetDefault(s3, "show_system_alert", TRUE)
        s5 == SetDefault(s4, "current_page", "app")
        s6 == SetDefault(s5, "df", NoneVal)
        s7 == IF "sessions" \notin DOMAIN s6
              THEN Set(Set(s6, "sessions", <<MockSession(new_id)>>),
                       "active_session_id", new_id)
              ELSE s6
        s8 == IF "active_session_id" \notin DOMAIN s7
              THEN IF s7.sessions # <<>>
                   THEN Set(s7, "active_session_id", Keys(s7.sessions)[1])
                   ELSE Set(Set(s7, "sessions", SetItem(s7.sessions, NewSession(new_id))),
                            "active_session_id", new_id)
              ELSE s7
    IN SetDefault(s8, "messages", <<>>)

\* sidebar._create_new_session
create_new_session(s, new_id) ==
    LET s1 == SetDefault(s, "sessions", <<>>)
        s2 == Set(s1, "sessions", SetItem(s1.sessions, NewSession(new_id)))
        s3 == Set(s2, "active_session_id", new_id)
    IN Set(s3, "current_page", "app")

\* variant: the active session id left as it was when its session is deleted
delete_session_keeps_active(s, session_id, new_id) ==
    Set(s, "sessions", DelItem(Get(s, "sessions", <<>>), session_id))

\* sidebar._delete_session; sessions is the dict of the state, so del changes it
delete_session(s, session_id, new_id) ==
    LET sessions == DelItem(Get(s, "sessions", <<>>), session_id)
        s1 == IF "sessions" \in DOMAIN s THEN Set(s, "sessions", sessions) ELSE s
    IN IF Get(s1, "active_session_id", NoneVal) = session_id
       THEN IF sessions # <<>>
            THEN Set(s1, "active_session_id", Keys(sessions)[1])
            ELSE create_new_session(s1, new_id)
       ELSE s1

\* chat_history._delete_session_from_history
delete_session_from_history(s, session_id, new_id) ==
    LET sessions == DelItem(Get(s, "sessions", <<>>), session_id)
        s1 == IF "sessions" \in DOMAIN s THEN Set(s, "sessions", sessions) ELSE s
    IN IF Get(s1, "active_session_id", NoneVal) = session_id
       THEN IF sessions # <<>>
            THEN Set(s1, "active_session_id", Keys(sessions)[1])
            ELSE Set(Set(s1, "sessions", <<NewSession(new_id)>>), "active_session_id", new_id)
       ELSE s1

\* the session button of _render_session_list and the Open button of
\* render_chat_history
open_session(s, session_id) ==
    Set(Set(s, "active_session_id", session_id), "current_page", "app")

\* query[:30] + "..." if len(query) > 30 else query
session_title(query) == IF Len(query) > 30 THEN SubSeq(query, 1, 30) \o "..." ELSE query

\* _handle_suggestion_click
handle_suggestion_click(s, query) ==
    LET active_id == Get(s, "active_session_id", NoneVal)
    IN IF active_id # NoneVal /\ HasKey(s.sessions, active_id)
       THEN LET i == IndexOf(s.sessions, active_id)
                messages == Append(s.sessions[i].messages, [role |-> "user", content |-> query])
                title == IF Len(messages) = 1 THEN session_title(query)
                         ELSE s.sessions[i].title
            IN Set(s, "sessions",
                   [s.sessions EXCEPT ![i].messages = messages, ![i].title = title])
       ELSE s

\* _process_user_query as far as the script gets when Streamlit stops it at one
\* of the st.* calls that follow the first append (st.chat_message, st.markdown,
\* st.spinner, render_response): the title and the user message are stored, the
\* answer is not
process_user_query_stopped(s, prompt) ==
    LET active_id == Get(s, "active_session_id", NoneVal)
    IN IF active_id = NoneVal \/ ~HasKey(s.sessions, active_id)
       THEN s
       ELSE LET i == IndexOf(s.sessions, active_id)
                session == s.sessions[i]
                title == IF Len(session.messages) = 0 THEN session_title(prompt)
                         ELSE session.title
                messages == Append(session.messages, [role |-> "user", content |-> prompt])
            IN Set(s, "sessions",
                   [s.sessions EXCEPT ![i].messages = messages, ![i].title = title])

\* _process_user_query run to its end
process_user_query(s, prompt) ==
    LET active_id == Get(s, "active_session_id", NoneVal)
    IN IF active_id = NoneVal \/ ~HasKey(s.sessions, active_id)
       THEN s
       ELSE LET i == IndexOf(s.sessions, active_id)
                session == s.sessions[i]
                title == IF Len(session.messages) = 0 THEN session_title(prompt)
                         ELSE session.title
                response == get_mock_response(prompt)
                messages ==
                    session.messages
                        \o <<[role |-> "user", content |-> prompt],
                             [role |-> "assistant",
                              content |-> format_response_for_history(response),
                              response_data |-> response]>>
            IN Set(s, "sessions",
                   [s.sessions EXCEPT ![i].messages = messages, ![i].title = title])

\* handle_quick_analysis, the on_query_click callback app.py hands to
\* render_sidebar
handle_quick_analysis(s, query_key) ==
    LET query_text ==
            CASE query_key = "failure_rates" ->
                     "What are the current transaction failure rates by payment type?"
              [] query_key = "weekend_trends" ->
                     "Show me the weekend vs weekday volume trends."
              [] query_key = "high_value_anomalies" ->
                     "Identify any high-value transaction anomalies flagged for review."
              [] OTHER -> "Analyze " \o query_key
    IN Set(s, "messages", Append(s.messages, [role |-> "user", content |-> query_text]))

\* variant: the investigation query put into the active session
handle_alert_investigation_into_session(s) ==
    Set(handle_suggestion_click(s, INVESTIGATION_QUERY), "alert_investigated", TRUE)

\* handle_alert_investigation
handle_alert_investigation(s) ==
    LET s1 == Set(s, "messages",
                  Append(s.messages, [role |-> "user", content |-> INVESTIGATION_QUERY]))
    IN Set(s1, "alert_investigated", TRUE)

\* _render_main_dashboard: alert_active
alert_active(s) == s.show_system_alert /\ ~s.alert_investigated

\* main: the pages on which _render_main_dashboard runs
main_dashboard_shown(s) ==
    s.current_page \notin {"analytics", "dashboard", "reports", "chat_history"}

\* _render_session_list: display_sessions, the three newest sessions
display_sessions(sessions) ==
    {sessions[i].id : i \in {j \in 1..Len(sessions) : j > Len(sessions) - 3}}

RECURSIVE TotalMessages(_)
\* the number of messages kept in all sessions
TotalMessages(sessions) ==
    IF sessions = <<>> THEN 0
    ELSE Len(Head(sessions).messages) + TotalMessages(Tail(sessions))

\* the most sessions and the most messages a browser session is followed to
MaxSessions == 4
AskSessions == 2
MaxMessages == 4
ChatMessages == 2

\* the values uuid.uuid4() can return
SessionIds == {"1b9d6bcd", "6ec0bd7f", "9c4e2a11", "c56a4180", "f47ac10b"}

\* what the user types into st.chat_input
Prompts ==
    {"Why do payments FAIL?",
     "Investigate Bill Payment spike",
     "Bill Payment volume on weekends",
     "fraud on a weekday",
     "high-value anomalies",
     "bill payment status",
     INVESTIGATION_QUERY}

\* every variable but session_state
generator_vars ==
    <<gen, rng, tape, clock, cfg, fs, txn, drawn, df, run, errors, summary, exc, out, ret, made>>

\* init_session_state has run
Initialized == "sessions" \in DOMAIN session_state

\* uuid4 values no session carries
FreshIds == SessionIds \ {session_state.sessions[i].id : i \in 1..Len(session_state.sessions)}

\* the first run of main(): init_session_state
Main ==
    /\ ~Initialized
    /\ \E new_id \in SessionIds : session_state' = init_session_state(session_state, new_id)
    /\ UNCHANGED generator_vars

\* "+ New Chat"
NewChat(limit) ==
    /\ Initialized
    /\ Len(session_state.sessions) < limit
    /\ \E new_id \in FreshIds : session_state' = create_new_session(session_state, new_id)
    /\ UNCHANGED generator_vars

\* a session button of the sidebar
SwitchSession ==
    /\ Initialized
    /\ \E session_id \in display_sessions(session_state.sessions) :
          session_state' = open_session(session_state, session_id)
    /\ UNCHANGED generator_vars

\* "Delete" in the sidebar
DeleteSession ==
    /\ Initialized
    /\ \E session_id \in display_sessions(session_state.sessions), new_id \in FreshIds :
          session_state' = delete_session(session_state, session_id, new_id)
    /\ UNCHANGED generator_vars

\* "Dashboard", "Analytics", "Reports"
Navigate ==
    /\ Initialized
    /\ \E page \in {"dashboard", "analytics", "reports"} :
          session_state' = Set(session_state, "current_page", page)
    /\ UNCHANGED generator_vars

\* "Show all (n)", offered for more than three sessions
ShowAll ==
    /\ Initialized
    /\ Len(session_state.sessions) > 3
    /\ session_state' = Set(session_state, "current_page", "chat_history")
    /\ UNCHANGED generator_vars

\* "Back to Assistant" on the chat-history page
Back ==
    /\ Initialized
    /\ session_state.current_page = "chat_history"
    /\ session_state' = Set(session_state, "current_page", "app")
    /\ UNCHANGED generator_vars

\* "Open" on the chat-history page
OpenSession ==
    /\ Initialized
    /\ session_state.current_page = "chat_history"
    /\ \E i \in 1..Len(session_state.sessions) :
          session_state' = open_session(session_state, session_state.sessions[i].id)
    /\ UNCHANGED generator_vars

\* "Delete" on the chat-history page
DeleteSessionFromHistory ==
    /\ Initialized
    /\ session_state.current_page = "chat_history"
    /\ \E i \in 1..Len(session_state.sessions), new_id \in FreshIds :
          session_state' =
              delete_session_from_history(session_state, session_state.sessions[i].id, new_id)
    /\ UNCHANGED generator_vars

\* a suggestion button of the chat interface
SuggestionClick(queries, limit) ==
    /\ Initialized
    /\ main_dashboard_shown(session_state)
    /\ TotalMessages(session_state.sessions) + 1 <= limit
    /\ \E query \in queries : session_state' = handle_suggestion_click(session_state, query)
    /\ UNCHANGED generator_vars

\* a prompt typed into the chat input: the script run that handles it reaches
\* its end, or is stopped on the way by the user's next click or by the end of
\* the browser session, and what it has stored by then stays in the state
UserQuery(prompts, limit) ==
    /\ Initialized
    /\ main_dashboard_shown(session_state)
    /\ TotalMessages(session_state.sessions) + 2 <= limit
    /\ \E prompt \in prompts :
          \/ session_state' = process_user_query(session_state, prompt)
          \/ session_state' = process_user_query_stopped(session_state, prompt)
    /\ UNCHANGED generator_vars

\* "Investigate" on the alert banner, rendered while the alert is active
Investigate ==
    /\ Initialized
    /\ main_dashboard_shown(session_state)
    /\ alert_active(session_state)
    /\ session_state' = handle_alert_investigation(session_state)
    /\ UNCHANGED generator_vars

\* handle_quick_analysis called with a key of its query_map or with another
\* one, as a component given it as on_query_click would
QuickAnalysis ==
    /\ Initialized
    /\ Len(session_state.messages) < ChatMessages
    /\ \E query_key \in {"failure_rates", "weekend_trends", "high_value_anomalies", "refunds"} :
          session_state' = handle_quick_analysis(session_state, query_key)
    /\ UNCHANGED generator_vars

(* SpecChat: a browser session in which every session-management button    *)
(* is used, with one suggestion and one prompt.                             *)

NextChat ==
    \/ Main
    \/ NewChat(MaxSessions)
    \/ SwitchSession
    \/ DeleteSession
    \/ Navigate
    \/ ShowAll
    \/ Back
    \/ OpenSession
    \/ DeleteSessionFromHistory
    \/ SuggestionClick({"What is the weekly transaction volume trend?"}, ChatMessages)
    \/ UserQuery({"Why do payments FAIL?"}, ChatMessages)
    \/ Investigate

SpecChat == Init /\ [][NextChat]_vars

(* SpecAsk: a browser session of AskSessions chats at most, in which every *)
(* suggestion and every prompt is used.                                    *)

NextAsk ==
    \/ Main
    \/ NewChat(AskSessions)
    \/ SwitchSession
    \/ SuggestionClick(Suggestions, MaxMessages)
    \/ UserQuery(Prompts, MaxMessages)
    \/ Investigate

SpecAsk == Init /\ [][NextAsk]_vars

(* SpecCallbacks: the two callbacks app.py hands to its components, called  *)
(* directly.  render_sidebar is given handle_quick_analysis and never calls *)
(* it, so SpecChat and SpecAsk, which follow the widgets, have no such step.*)

NextCallbacks ==
    \/ Main
    \/ Investigate
    \/ QuickAnalysis

SpecCallbacks == Init /\ [][NextCallbacks]_vars

-----------------------------------------------------------------------------
(* Properties.                                                             *)

\* every record a generator has returned: directly, or as a row of a table
AllRecords ==
    {txn[i] : i \in 1..Len(txn)}
        \cup UNION {{df[v][1][i] : i \in 1..Len(df[v][1])} : v \in {w \in Slots : df[w] # <<>>}}

\* C1: in every generated record, and so in every row of a generated table,
\* transaction_type is P2P if and only if merchant_category is null.
C1_MerchantNullIffP2P ==
    \A r \in AllRecords : (r.transaction_type = "P2P") <=> (r.merchant_category = NoneVal)

\* a generated table holding a P2P row without a merchant and a Bill Payment row with one
C1_Witness ==
    /\ df[1] # <<>>
    /\ \E i, j \in 1..Len(df[1][1]) :
          /\ df[1][1][i].transaction_type = "P2P"
          /\ df[1][1][i].merchant_category = NoneVal
          /\ df[1][1][j].transaction_type = "Bill Payment"
          /\ df[1][1][j].merchant_category = "Utilities"

\* C2: in every generated record transaction_type is P2P if and only if
\* receiver_age_group is non-null, and a non-null one is one of the five age groups.
C2_ReceiverAgeIffP2P ==
    \A r \in AllRecords :
        /\ (r.transaction_type = "P2P") <=> (r.receiver_age_group # NoneVal)
        /\ r.receiver_age_group # NoneVal =>
              r.receiver_age_group \in {"18-25", "26-35", "36-45", "46-55", "56+"}

\* a directly generated P2P record that carries the last age group
C2_Witness ==
    /\ txn # <<>>
    /\ txn[1].transaction_type = "P2P"
    /\ txn[1].receiver_age_group = "56+"

\* a run MockDataGenerator(seed=S).generate_data(N): the table of caller
\* variable v came from a generator seeded with S, asked right after construction
IsSeededRun(v, S, N) ==
    /\ df[v] # <<>>
    /\ run[v][1].fresh
    /\ run[v][1].seed = <<S>>
    /\ run[v][1].n = N

\* C3: two runs of MockDataGenerator(seed=S).generate_data(N) with the same S
\* and N yield identical tables, transaction_id and timestamp included.
C3_Determinism ==
    \A S \in Seeds, N \in 1..MaxRows :
        IsSeededRun(1, S, N) /\ IsSeededRun(2, S, N) => df[1] = df[2]

\* timestamps of a table are in non-decreasing order
NonDecreasing(table) ==
    \A i \in 1..(Len(table) - 1) : table[i].timestamp <= table[i + 1].timestamp

\* C4: generate_data(N), N >= 1, returns exactly N rows in non-decreasing
\* order of timestamp.
C4_NRowsSorted ==
    \A v \in Slots :
        df[v] # <<>> => Len(df[v][1]) = run[v][1].n /\ NonDecreasing(df[v][1])

\* a seeded generator drew a later instant first, and the table of two rows
\* it returned is ascending
C4_Witness ==
    /\ IsSeededRun(1, 42, 2)
    /\ Len(tape[42]) = 2
    /\ tape[42][1].secs > tape[42][2].secs
    /\ df[1][1][1].timestamp < df[1][1][2].timestamp

\* the range a (device_type, transaction_type) pair is said to have, in paise:
\* the device range, narrowed by the floor and the cap of the type
NarrowedRange(device_type, transaction_type) ==
    LET dev == CASE device_type = "Android" -> <<1000, 2500000>>
                 [] device_type = "iOS" -> <<5000, 4500000>>
                 [] device_type = "Web" -> <<10000, 7500000>>
    IN CASE transaction_type = "Recharge" -> <<dev[1], Min(dev[2], 200000)>>
         [] transaction_type = "Bill Payment" -> <<Max(dev[1], 10000), Min(dev[2], 5000000)>>
         [] transaction_type = "P2M" -> <<Max(dev[1], 2000), Min(dev[2], 3000000)>>
         [] transaction_type = "P2P" -> dev

\* C5: amount_inr lies within the device range narrowed by the type, after
\* rounding to two decimals.
C5_AmountWithinNarrowedRange ==
    \A r \in AllRecords :
        LET range == NarrowedRange(r.device_type, r.transaction_type)
        IN range[1] <= r.amount_inr /\ r.amount_inr <= range[2]

\* C6: for device_type iOS and every transaction_type, amount_inr is never
\* below 50.00 and never above min(45000, the cap of the type).
C6_IosAmountBounds ==
    \A r \in AllRecords :
        r.device_type = "iOS" =>
            /\ r.amount_inr >= 5000
            /\ r.amount_inr <= NarrowedRange("iOS", r.transaction_type)[2]

\* the weekday name of an instant, counted from Monday 1970-01-05
DayNameOf(ts) ==
    LET names == <<"Monday", "Tuesday", "Wednesday", "Thursday", "Friday",
                   "Saturday", "Sunday">>
    IN names[(((ts - 4 * 86400) \div 86400) % 7) + 1]

\* C7: the stored hour_of_day, day_of_week and is_weekend of every row are
\* those recomputed from the row's timestamp: the hour (0-23), the weekday
\* name, and 1 exactly on Saturday and Sunday.
C7_DerivedFieldsMatchTimestamp ==
    \A r \in AllRecords :
        /\ r.hour_of_day \in 0..23
        /\ r.hour_of_day = (r.timestamp % 86400) \div 3600
        /\ r.day_of_week = DayNameOf(r.timestamp)
        /\ r.is_weekend = IF DayNameOf(r.timestamp) \in {"Saturday", "Sunday"} THEN 1 ELSE 0

\* a record stamped on a Saturday at 23 h
C7_Witness ==
    /\ txn # <<>>
    /\ txn[1].day_of_week = "Saturday"
    /\ txn[1].hour_of_day = 23
    /\ txn[1].is_weekend = 1

\* the four rules of validate_data, as stated: does some row of the table break rule k
RuleBroken(table, k) ==
    \E i \in 1..Len(table) :
        LET r == table[i]
        IN CASE k = 1 -> r.transaction_type = "P2P" /\ r.merchant_category # NoneVal
             [] k = 2 -> r.transaction_type = "P2P" /\ r.receiver_age_group = NoneVal
             [] k = 3 -> r.transaction_type # "P2P" /\ r.receiver_age_group # NoneVal
             [] k = 4 -> r.transaction_type # "P2P" /\ r.merchant_category = NoneVal

\* the message of rule k
RuleText(k) ==
    CASE k = 1 -> "P2P transactions have non-null merchant_category"
      [] k = 2 -> "P2P transactions have null receiver_age_group"
      [] k = 3 -> "non-P2P transactions have non-null receiver_age_group"
      [] k = 4 -> "non-P2P transactions have null merchant_category"

\* C8: validate_data reports each of its four rules independently: the list
\* holds exactly one message per rule that some row breaks, so k broken rules
\* give k messages, and it is empty if and only if no rule is broken.
C8_OneMessagePerBrokenRule ==
    errors # <<>> =>
        LET table == df[1][1]
            broken == {k \in 1..4 : RuleBroken(table, k)}
            Messages(k) == {j \in 1..Len(errors[1]) : errors[1][j].text = RuleText(k)}
        IN /\ Len(errors[1]) = Cardinality(broken)
           /\ \A k \in 1..4 : Cardinality(Messages(k)) = IF k \in broken THEN 1 ELSE 0
           /\ (errors[1] = <<>>) <=> (broken = {})

\* a table that breaks all four rules was validated, and four messages came back
C8_Witness ==
    /\ errors # <<>>
    /\ Len(errors[1]) = 4
    /\ \A k \in 1..4 : RuleBroken(df[1][1], k)

\* C9: for every table generate_data returns, validate_data returns an empty
\* list and get_data_summary reports total_records = N and both rule checks true.
C9_GeneratedTableIsValid ==
    /\ errors # <<>> => errors[1] = <<>>
    /\ summary # <<>> =>
          /\ summary[1].total_records = run[1][1].n
          /\ summary[1].p2p_null_merchant_check = TRUE
          /\ summary[1].non_p2p_null_receiver_age_check = TRUE

\* a generated table with a P2P and a Bill Payment row was validated and summarised
C9_Witness ==
    /\ errors = << <<>> >>
    /\ summary # <<>>
    /\ summary[1].total_records = 2
    /\ \E i, j \in 1..2 :
          /\ df[1][1][i].transaction_type = "P2P"
          /\ df[1][1][j].transaction_type = "Bill Payment"

\* the rows of a table in the weekend Bill Payment slice, and in the high-value slice
WeekendBillpayRows(table) ==
    {i \in 1..Len(table) :
        table[i].transaction_type = "Bill Payment" /\ table[i].is_weekend = 1}
HighValueRows(table) == {i \in 1..Len(table) : table[i].amount_inr > 5000000}

\* C10: for a non-empty table, weekend_billpay_failure_rate is null exactly
\* when there is no (Bill Payment, weekend) row and high_value_fraud_rate is
\* null exactly when no amount is above 50000; otherwise each is the failed
\* (flagged) fraction of its slice, and neither is ever the NaN of an empty mean.
C10_SliceRatesNullIffEmpty ==
    summary # <<>> =>
        LET table == df[1][1]
            wb == WeekendBillpayRows(table)
            hv == HighValueRows(table)
            wbRate == summary[1].weekend_billpay_failure_rate
            hvRate == summary[1].high_value_fraud_rate
        IN /\ (wbRate.kind = "none") <=> (wb = {})
           /\ (hvRate.kind = "none") <=> (hv = {})
           /\ wbRate.kind # "nan" /\ hvRate.kind # "nan"
           /\ wb # {} =>
                 wbRate = [kind |-> "value",
                           num |-> Cardinality({i \in wb : table[i].transaction_status = "FAILED"}),
                           den |-> Cardinality(wb)]
           /\ hv # {} =>
                 hvRate = [kind |-> "value",
                           num |-> Cardinality({i \in hv : table[i].fraud_flag = 1}),
                           den |-> Cardinality(hv)]

\* a summary of a table with no weekend Bill Payment row and two high-value
\* rows, one of them flagged
C10_Witness ==
    /\ summary # <<>>
    /\ WeekendBillpayRows(df[1][1]) = {}
    /\ summary[1].weekend_billpay_failure_rate.kind = "none"
    /\ summary[1].high_value_fraud_rate = [kind |-> "value", num |-> 1, den |-> 2]

\* C11: generate_data(0) is either rejected as invalid input, which in Python
\* is a ValueError raised for the argument, or it returns an empty table, and
\* the summary of that table completes with all four rates null.
C11_ZeroRowsRejectedOrEmptyTable ==
    \A v \in Slots :
        (run[v] # <<>> /\ run[v][1].n = 0) =>
            \/ run[v][1].raised = "ValueError"
            \/ /\ run[v][1].raised = ""
               /\ df[v] = << <<>> >>
               /\ (v = 1 /\ summary # <<>>) =>
                     /\ summary[1].overall_failure_rate = NoneRate
                     /\ summary[1].fraud_flag_rate = NoneRate
                     /\ summary[1].weekend_billpay_failure_rate = NoneRate
                     /\ summary[1].high_value_fraud_rate = NoneRate

\* the lines of the report of generate_and_save_dataset that every run prints
ReportTexts ==
    {"Dataset Summary:", "Total records", "Date range", "Overall failure rate",
     "Overall fraud flag rate", "Weekend Bill Payment failure rate",
     "High-value (>50k) fraud rate", "Avg Amount by Device"}

\* some printed line has the text t
Printed(t) == \E i \in 1..Len(out) : out[i].text = t

\* C12: every run of generate_and_save_dataset that generated its table (N >= 1)
\* and can write its output path prints the validation report and the whole
\* summary and then writes the file, whichever slices of the table are empty;
\* "validation passed" is printed exactly when validate_data returned no violation.
C12_ReportPrintedThenFileWritten ==
    (out # <<>> /\ fs.writable) =>
        /\ exc = <<>>
        /\ \A t \in ReportTexts : Printed(t)
        /\ fs.file = <<to_csv(df[1][1])>>
        /\ out[Len(out)].text = "Dataset saved to"
        /\ Printed("Data validation passed!") <=> (errors[1] = <<>>)

\* C16: when a run reaches df.to_csv and the output path cannot be written,
\* the error reaches the caller, nothing is written, and the caller still has
\* the generated table, unaltered.
C16_TableSurvivesWriteFailure ==
    (out # <<>> /\ ~fs.writable /\ exc # <<"TypeError">>) =>
        /\ exc = <<"OSError">>
        /\ fs.file = <<>>
        /\ ret = df[1]

\* the 17 fields of the schema
SchemaFields ==
    {"transaction_id", "timestamp", "transaction_type", "merchant_category",
     "amount_inr", "transaction_status", "sender_age_group", "receiver_age_group",
     "sender_state", "sender_bank", "receiver_bank", "device_type", "network_type",
     "fraud_flag", "hour_of_day", "day_of_week", "is_weekend"}

\* C13: every record generate_single_transaction returns carries all 17 schema
\* fields as keys; a field that is absent for the record's type is present
\* with an explicit null, never left out.
C13_RecordFullyPopulated ==
    \A r \in AllRecords :
        /\ DOMAIN r = SchemaFields
        /\ r.transaction_type = "P2P" => r.merchant_category = NoneVal
        /\ r.transaction_type # "P2P" => r.receiver_age_group = NoneVal

\* a directly generated P2M record: it has a merchant, and its receiver age
\* group is there as a null
C13_Witness ==
    /\ txn # <<>>
    /\ txn[1].transaction_type = "P2M"
    /\ txn[1].merchant_category = "Entertainment"
    /\ "receiver_age_group" \in DOMAIN txn[1]
    /\ txn[1].receiver_age_group = NoneVal

\* the values of a sequence
Range(seq) == {seq[i] : i \in 1..Len(seq)}

\* C14: in every row of a generated table the enumerated columns stay in their
\* schema domains.
C14_ColumnsInSchemaDomains ==
    \A v \in Slots :
        df[v] # <<>> =>
            \A i \in 1..Len(df[v][1]) :
                LET r == df[v][1][i]
                IN /\ r.transaction_type \in {"P2P", "P2M", "Bill Payment", "Recharge"}
                   /\ r.transaction_status \in {"SUCCESS", "FAILED"}
                   /\ r.device_type \in {"Android", "iOS", "Web"}
                   /\ r.network_type \in {"4G", "5G", "WiFi"}
                   /\ r.sender_bank \in Range(BANKS) /\ Len(BANKS) = 5
                   /\ r.receiver_bank \in Range(BANKS)
                   /\ r.sender_state \in Range(INDIAN_STATES) /\ Len(INDIAN_STATES) = 10
                   /\ r.sender_age_group \in {"18-25", "26-35", "36-45", "46-55", "56+"}
                   /\ r.fraud_flag \in {0, 1}
                   /\ r.is_weekend \in {0, 1}
                   /\ r.hour_of_day \in 0..23

\* a generated table of two rows: a failed weekend Bill Payment at 23 h and a
\* flagged P2P on a weekday
C14_Witness ==
    /\ df[1] # <<>>
    /\ Len(df[1][1]) = 2
    /\ \E i, j \in 1..2 :
          /\ df[1][1][i].transaction_type = "Bill Payment"
          /\ df[1][1][i].transaction_status = "FAILED"
          /\ df[1][1][i].is_weekend = 1
          /\ df[1][1][i].hour_of_day = 23
          /\ df[1][1][j].transaction_type = "P2P"
          /\ df[1][1][j].fraud_flag = 1
          /\ df[1][1][j].is_weekend = 0

\* C19: the failure probability behind a record's transaction_status is 0.20
\* exactly when the record is a Bill Payment whose own is_weekend is 1, and
\* 0.05 otherwise: the record is FAILED exactly when its uniform draw is below that.
C19_FailureRateByTypeAndWeekend ==
    txn # <<>> =>
        LET r == txn[1]
            rate == IF r.transaction_type = "Bill Payment" /\ r.is_weekend = 1
                    THEN 20 ELSE 5
        IN (r.transaction_status = "FAILED") <=> (drawn[1].fail < rate)

\* a weekend Bill Payment failed on a draw of 0.19, which 0.05 would let pass
C19_Witness ==
    /\ txn # <<>>
    /\ txn[1].transaction_type = "Bill Payment"
    /\ txn[1].is_weekend = 1
    /\ drawn[1].fail = 19
    /\ txn[1].transaction_status = "FAILED"

\* C20: the fraud probability behind a record's fraud_flag is 0.10 exactly when
\* the stored amount_inr is above 50000, and 0.02 otherwise, 50000.00 included:
\* the flag is 1 exactly when its uniform draw is below that.
C20_FraudRateByStoredAmount ==
    txn # <<>> =>
        LET r == txn[1]
            rate == IF r.amount_inr > 5000000 THEN 10 ELSE 2
        IN (r.fraud_flag = 1) <=> (drawn[1].fraud < rate)

\* an amount of exactly 50000.00 was not flagged on a draw of 0.09
C20_Witness ==
    /\ txn # <<>>
    /\ txn[1].amount_inr = 5000000
    /\ drawn[1].fraud = 9
    /\ txn[1].fraud_flag = 0

\* C15: a malformed static configuration is detected when MockDataGenerator is
\* constructed: no generator exists over a weight table that random.choices
\* rejects.
C15_MalformedConfigurationRejected ==
    choices_raises(DEVICE_TYPES, cfg.DEVICE_WEIGHTS) => gen = <<>>

\* the run kept for caller variable v is generate_data(N) by a generator
\* constructed with seed S and asked for the first time
IsFirstRun(v, S, N) ==
    /\ run[v] # <<>>
    /\ run[v][1].seed = <<S>>
    /\ run[v][1].n = N
    /\ run[v][1].first
    /\ run[v][1].raised = ""

\* C17: the draws behind the records of a generator seeded with S are the same
\* whether or not another generator is constructed, or draws records, between
\* its construction and its draws.
C17_InstancesDoNotInterfere ==
    \A S \in Seeds, N \in 1..MaxRows :
        IsFirstRun(1, S, N) /\ IsFirstRun(2, S, N) => run[1][1].draws = run[2][1].draws

\* the place of a value in an order of computation
Position(order, name) == CHOOSE i \in 1..Len(order) : order[i] = name

Before(order, a, b) ==
    /\ \E i \in 1..Len(order) : order[i] = a
    /\ \E i \in 1..Len(order) : order[i] = b
    /\ Position(order, a) < Position(order, b)

\* C21: within the generation of one record the timestamp and the is_weekend
\* flag derived from it are computed before transaction_status is sampled, the
\* amount before fraud_flag is sampled, and transaction_type and device_type
\* before the amount, merchant_category and receiver_age_group: no run reads a
\* value that has not been computed, and the order in which a record's values
\* were computed has each of these before its reader.
C21_ComputedBeforeUse ==
    /\ exc # <<"UnboundLocalError">>
    /\ \A v \in DOMAIN run : run[v] # <<>> => run[v][1].raised # "UnboundLocalError"
    /\ made # <<>> =>
          LET order == made[1].order
          IN /\ Before(order, "timestamp", "is_weekend")
             /\ Before(order, "is_weekend", "transaction_status")
             /\ Before(order, "amount", "fraud_flag")
             /\ \A a \in {"transaction_type", "device_type"},
                   b \in {"amount", "merchant_category", "receiver_age_group"} :
                   Before(order, a, b)

\* a record was made whose sixteen values were computed from the timestamp,
\* first, to the fraud flag, last: a weekend Bill Payment on the Web with the
\* amount at its ceiling, failed on a draw of 0.19 by the weekend rate its own
\* is_weekend selects
C21_Witness ==
    /\ made # <<>>
    /\ txn # <<>>
    /\ exc = <<>>
    /\ Len(made[1].order) = 16
    /\ made[1].order[1] = "timestamp"
    /\ made[1].order[5] = "is_weekend"
    /\ made[1].order[9] = "transaction_status"
    /\ made[1].order[16] = "fraud_flag"
    /\ txn[1].transaction_type = "Bill Payment"
    /\ txn[1].is_weekend = 1
    /\ drawn[1].fail = 19
    /\ txn[1].transaction_status = "FAILED"

\* C22: every P2M record has a merchant_category among Food, Grocery, Fuel and
\* Entertainment, and every Bill Payment and Recharge record has 'Utilities'.
C22_MerchantCategoryOfType ==
    \A r \in AllRecords :
        /\ r.transaction_type = "P2M" =>
              r.merchant_category \in {"Food", "Grocery", "Fuel", "Entertainment"}
        /\ r.transaction_type \in {"Bill Payment", "Recharge"} =>
              r.merchant_category = "Utilities"

\* a Recharge record was given its category on a draw that picks the first entry
C22_Witness ==
    /\ txn # <<>>
    /\ txn[1].transaction_type = "Recharge"
    /\ drawn[1].mcat = 0
    /\ txn[1].merchant_category = "Utilities"

\* C23: every generated timestamp lies in the 30-day window that ends at the
\* datetime.now() its record read, both ends included, a whole number of seconds
\* after the start of the window.
C23_TimestampInTrailingWindow ==
    /\ made # <<>> =>
          LET end == made[1].now
              start == end - DaySeconds(30)
          IN /\ start <= txn[1].timestamp
             /\ txn[1].timestamp <= end
             /\ txn[1].timestamp - start \in 0..DaySeconds(30)
    /\ \A v \in Slots : df[v] # <<>> =>
          \A i \in 1..Len(df[v][1]) :
              \E end \in Clocks :
                  /\ end <= clock
                  /\ end - DaySeconds(30) <= df[v][1][i].timestamp
                  /\ df[v][1][i].timestamp <= end

\* a record whose timestamp is the very reading of datetime.now()
C23_Witness ==
    /\ made # <<>>
    /\ drawn[1].secs = DaySeconds(30)
    /\ txn[1].timestamp = made[1].now

\* C24: a record has amount_inr above 50000 only when it is a Web P2P record; so
\* only such a record is sampled at the elevated fraud rate, and a summary has a
\* high_value_fraud_rate only for a table that holds one.
C24_HighValueOnlyWebP2P ==
    /\ \A r \in AllRecords :
          r.amount_inr > 5000000 => r.device_type = "Web" /\ r.transaction_type = "P2P"
    /\ txn # <<>> /\ drawn # <<>> =>
          (txn[1].fraud_flag = 1 /\ drawn[1].fraud >= BASE_FRAUD_RATE =>
              txn[1].device_type = "Web" /\ txn[1].transaction_type = "P2P")
    /\ summary # <<>> /\ df[1] # <<>> =>
          (summary[1].high_value_fraud_rate # NoneRate =>
              \E i \in 1..Len(df[1][1]) :
                  /\ df[1][1][i].device_type = "Web"
                  /\ df[1][1][i].transaction_type = "P2P")

\* a Web P2P record above 50000 was flagged on a draw of 0.09
C24_Witness ==
    /\ txn # <<>>
    /\ txn[1].device_type = "Web"
    /\ txn[1].transaction_type = "P2P"
    /\ txn[1].amount_inr > 5000000
    /\ drawn[1].fraud = 9
    /\ txn[1].fraud_flag = 1

\* C25: on a table over the four transaction types, an empty validate_data
\* result comes with both summary checks true, a false summary check comes with
\* a non-empty validate_data result, and a check over no rows is true.
C25_SummaryChecksAgreeWithValidator ==
    errors # <<>> /\ summary # <<>> =>
        LET table == df[1][1]
            p2p == SelectSeq(table, LAMBDA r : r.transaction_type = "P2P")
            non_p2p == SelectSeq(table, LAMBDA r : r.transaction_type # "P2P")
        IN /\ errors[1] = <<>> =>
                 /\ summary[1].p2p_null_merchant_check
                 /\ summary[1].non_p2p_null_receiver_age_check
           /\ ~summary[1].p2p_null_merchant_check => errors[1] # <<>>
           /\ ~summary[1].non_p2p_null_receiver_age_check => errors[1] # <<>>
           /\ Len(p2p) = 0 => summary[1].p2p_null_merchant_check
           /\ Len(non_p2p) = 0 => summary[1].non_p2p_null_receiver_age_check

\* a table without P2P rows whose receiver age groups break the rule: the P2P
\* check is true over no rows, the other is false and the validator objects
C25_Witness ==
    /\ errors # <<>>
    /\ summary # <<>>
    /\ \A i \in 1..Len(df[1][1]) : df[1][1][i].transaction_type # "P2P"
    /\ summary[1].p2p_null_merchant_check
    /\ ~summary[1].non_p2p_null_receiver_age_check
    /\ errors[1] # <<>>

\* C26: once init_session_state has run, and after any sequence of new-chat,
\* switch, open, delete, suggestion and query operations, the sessions map is
\* not empty and active_session_id is one of its keys.
C26_ActiveSessionExists ==
    Initialized =>
        /\ session_state.sessions # <<>>
        /\ "active_session_id" \in DOMAIN session_state
        /\ HasKey(session_state.sessions, session_state.active_session_id)

\* the last session was deleted on the chat-history page and replaced by an
\* empty 'New Chat', which is the active one
C26_Witness ==
    /\ Initialized
    /\ session_state.current_page = "chat_history"
    /\ session_state.sessions = <<NewSession(session_state.active_session_id)>>

\* C27: from a state in which both can be used, and for the same session id and
\* the same fresh id, sidebar._delete_session and
\* chat_history._delete_session_from_history leave the same sessions, the same
\* active_session_id and the same current_page.
C27_DeleteOperationsEquivalent ==
    Initialized /\ session_state.current_page = "chat_history" =>
        \A session_id \in display_sessions(session_state.sessions), new_id \in FreshIds :
            LET a == delete_session(session_state, session_id, new_id)
                b == delete_session_from_history(session_state, session_id, new_id)
            IN /\ a.sessions = b.sessions
               /\ a.active_session_id = b.active_session_id
               /\ a.current_page = b.current_page

\* the texts of the user messages kept in the sessions and in the legacy list
UserTexts ==
    {session_state.messages[k].content : k \in 1..Len(session_state.messages)}
        \cup UNION {{session_state.sessions[i].messages[k].content :
                        k \in {j \in 1..Len(session_state.sessions[i].messages) :
                                  session_state.sessions[i].messages[j].role = "user"}} :
                    i \in 1..Len(session_state.sessions)}

\* the canned answer the priority order gives a text: the first of fail, volume,
\* weekend / weekday, anomal / high-value / fraud, and bill payment with
\* 'last 2 hours' or 'investigate', that its lower-case form contains
CardByPriority(text) ==
    LET l == Lower(text)
        fail == In("fail", l)
        volume == In("volume", l)
        weekend == In("weekend", l) \/ In("weekday", l)
        anomaly == In("anomal", l) \/ In("high-value", l) \/ In("fraud", l)
        bill == In("bill payment", l) /\ (In("last 2 hours", l) \/ In("investigate", l))
    IN CASE fail -> "Failure Rate"
         [] ~fail /\ volume -> "Volume Analysis"
         [] ~fail /\ ~volume /\ weekend -> "Weekend vs Weekday Trends"
         [] ~fail /\ ~volume /\ ~weekend /\ anomaly -> "Flagged Transactions"
         [] ~fail /\ ~volume /\ ~weekend /\ ~anomaly /\ bill -> "Current Hour Failure Rate"
         [] OTHER -> "text"

\* what tells the canned answers apart: the metric label, the title or the type
CardOf(response) ==
    Get(response, "metric_label", Get(response, "title", response.type))

\* the texts a session state can hold: what is typed, suggested, pre-filled
\* or issued by the alert
KnownTexts == Prompts \cup Suggestions \cup {INVESTIGATION_QUERY, MockMessages[1].content}

\* per text, the answer of get_mock_response, the card the priority order gives
\* it, and the keywords of higher priority than the investigation it contains
Answers == [text \in KnownTexts |-> get_mock_response(text)]

Expected == [text \in KnownTexts |-> CardByPriority(text)]

Keywords ==
    [text \in KnownTexts |->
        {keyword \in {"fail", "volume", "weekend", "weekday", "anomal", "high-value", "fraud"} :
            In(keyword, Lower(text))}]

\* C28: get_mock_response answers by the first matching keyword in the order
\* fail, volume, weekend / weekday, anomal / high-value / fraud, bill payment
\* investigation, default: every text with 'fail' gets the failure-rate card,
\* the investigation card goes only to texts without a keyword of higher
\* priority, and the query of handle_alert_investigation does not get it.
C28_FirstMatchingKeyword ==
    Initialized =>
        /\ \A text \in UserTexts \cup {INVESTIGATION_QUERY} :
              /\ text \in KnownTexts
              /\ CardOf(Answers[text]) = Expected[text]
              /\ "fail" \in Keywords[text] => Answers[text] = FAILURE_CARD
              /\ Answers[text] = BILL_PAYMENT_CARD => Keywords[text] = {}
        /\ Answers[INVESTIGATION_QUERY] # BILL_PAYMENT_CARD
        /\ \A i \in 1..Len(session_state.sessions) :
              \A k \in 2..Len(session_state.sessions[i].messages) :
                  LET messages == session_state.sessions[i].messages
                  IN messages[k].role = "assistant" /\ messages[k] # MockMessages[2] =>
                        CardOf(messages[k].response_data) = Expected[messages[k - 1].content]

\* the investigation query was typed into the chat and answered with the
\* failure-rate card, and the legacy list holds the query of the alert
C28_Witness ==
    /\ Initialized
    /\ session_state.messages # <<>>
    /\ \E i \in 1..Len(session_state.sessions) :
          \E k \in 2..Len(session_state.sessions[i].messages) :
              /\ session_state.sessions[i].messages[k - 1].content = INVESTIGATION_QUERY
              /\ session_state.sessions[i].messages[k].role = "assistant"
              /\ session_state.sessions[i].messages[k].response_data = FAILURE_CARD

\* the active session of a session state
ActiveSession(s) == s.sessions[IndexOf(s.sessions, s.active_session_id)]

\* every session but the active one, and the choice of the active one, are the
\* same in the two session states
OtherSessionsUnchanged(s, t) ==
    /\ t.active_session_id = s.active_session_id
    /\ Len(t.sessions) = Len(s.sessions)
    /\ \A i \in 1..Len(s.sessions) :
          /\ t.sessions[i].id = s.sessions[i].id
          /\ s.sessions[i].id # s.active_session_id => t.sessions[i] = s.sessions[i]

\* the title a session has after query was added to it
TitleAfter(before, query) ==
    IF Len(before.messages) = 0
    THEN IF Len(query) > 30 THEN SubSeq(query, 1, 30) \o "..." ELSE query
    ELSE before.title

\* C29: a step of _process_user_query adds two messages to the active session,
\* the user message and then an assistant message; a step of
\* _handle_suggestion_click adds one user message; either takes the title from
\* the query, cut to 30 characters and '...', only for the first message of the
\* session, and leaves every other session as it was.
C29_MessageBookkeeping ==
    [][/\ \A prompt \in Prompts :
             UserQuery({prompt}, MaxMessages) =>
                 LET before == ActiveSession(session_state)
                     after == ActiveSession(session_state')
                     n == Len(before.messages)
                 IN /\ OtherSessionsUnchanged(session_state, session_state')
                    /\ Len(after.messages) = n + 2
                    /\ SubSeq(after.messages, 1, n) = before.messages
                    /\ after.messages[n + 1] = [role |-> "user", content |-> prompt]
                    /\ after.messages[n + 2].role = "assistant"
                    /\ after.title = TitleAfter(before, prompt)
       /\ \A query \in Suggestions :
             SuggestionClick({query}, MaxMessages) =>
                 LET before == ActiveSession(session_state)
                     after == ActiveSession(session_state')
                     n == Len(before.messages)
                 IN /\ OtherSessionsUnchanged(session_state, session_state')
                    /\ Len(after.messages) = n + 1
                    /\ SubSeq(after.messages, 1, n) = before.messages
                    /\ after.messages[n + 1] = [role |-> "user", content |-> query]
                    /\ after.title = TitleAfter(before, query)]_vars

\* C30: a step of the Investigate action sets alert_investigated, appends the
\* investigation query to the legacy messages list and leaves every session as
\* it was; no step takes alert_investigated back, so the alert is not active
\* again.
C30_InvestigateOnlyLegacyList ==
    [][/\ Investigate =>
             /\ session_state'.alert_investigated
             /\ session_state'.messages =
                   Append(session_state.messages,
                          [role |-> "user", content |-> INVESTIGATION_QUERY])
             /\ session_state'.sessions = session_state.sessions
       /\ Initialized /\ session_state.alert_investigated =>
             /\ session_state'.alert_investigated
             /\ ~alert_active(session_state')]_vars

\* the alert was investigated, the legacy list holds its query, and the user has
\* since gone to the chat-history page
C30_Witness ==
    /\ Initialized
    /\ session_state.alert_investigated
    /\ session_state.messages = <<[role |-> "user", content |-> INVESTIGATION_QUERY]>>
    /\ session_state.current_page = "chat_history"

====
